---- MODULE Spec2Model ----
(***************************************************************************)
(* Model of the test-execution backend of the browser testing platform:    *)
(* the HTTP handlers of backend/routes/test-routes.js (start, stop, status,*)
(* report, recording), the background job runTestInBackground, the queue   *)
(* drain processQueue, and the rows of backend/database/db.js they write;  *)
(* getRecordingUrl of the session service; and the parsing of the model's  *)
(* answer in analyzeAndAct.                                                *)
(*                                                                         *)
(* The server is one Node.js process: code runs without interruption from  *)
(* one `await` to the next, so every action below is one such segment of a *)
(* handler or of a job, and the `pc` variables name the await at which a   *)
(* handler or job is suspended.  Calls to the session provider, to the     *)
(* browser driver and to the model are external: each await on one of      *)
(* them may return or throw.                                               *)
(***************************************************************************)
EXTENDS Integers, Sequences, FiniteSets, TLC

\* Number of valid start requests considered (each one draws a fresh testId).
MaxTests == 4

\* Number of start requests that find the active map below the limit.
MaxImmediate == 2

\* Number of stop requests that find their run running.
MaxStops == 1

Ids == 1..MaxTests

\* error.message values that reach the tests table or an HTTP answer
SessionError == "Failed to create Browserbase session"
ConnectError == "Failed to connect Playwright"
NavigateError == "navigation failed"
ProtocolError == "protocol step failed"
ReportError == "Report generation failed"
InsertError == "insert failed"
SummaryError == "Summary generation failed"
StopMessage == "Manually stopped by user"
NoError == "null"

\* urls a start request may carry: absent, not parseable by new URL(), valid
Urls == {"missing", "malformed", "valid"}

VARIABLES
    nextId,             \* the next fresh testId (randomUUID never repeats)
    tests,              \* table tests: testId -> row
    reports,            \* table reports: number of rows per testId
    actionLogs,         \* table action_logs: number of rows per testId
    activeSessions,     \* the Map activeSessions: testId -> entry
    testQueue,          \* the array testQueue (testIds, head first)
    isProcessingQueue,  \* the flag isProcessingQueue
    pqPc,               \* where the processQueue pass is suspended
    processQueueCalls,  \* the number of calls of processQueue made so far
    startPc,            \* testId -> await at which its start handler is
    jobPc,              \* testId -> await at which its job is
    browser,            \* testId -> the job's local `browser` is non-null
    stopPc,             \* testId -> await at which its stop handler is
    sessions,           \* testId -> outcome of createSession for that test
    endRequests,        \* session -> number of endSession calls made for it
    startReply,         \* testId -> answer of POST /start
    stopSucceeded,      \* testIds for which POST /stop answered 200
    stopCount,          \* number of stop requests accepted so far
    reportSummary,      \* testId -> the run's report row has a summary
    responseText,       \* analyzeAndAct: what messages.create produced
    actionData,         \* analyzeAndAct: what the call returned or threw
    recordingRequest,   \* GET recording: the row found and the retrievals
    recordingReply,     \* GET recording: the answer
    reportArgs,         \* generateReport: the arguments of the calls
    report,             \* generateReport: what each call returned or threw
    shutdownTests,      \* cleanupOnExit: the rows of table tests, oldest first
    runningTests,       \* cleanupOnExit: the tests still to clean up
    cleanupPc,          \* cleanupOnExit: where the handler is
    released,           \* cleanupOnExit: tests whose session had an end request
    endFailures,        \* cleanupOnExit: end requests that failed
    connectAttempt,     \* connectPlaywright: the loop's variable attempt
    connectPc,          \* connectPlaywright: where the call is
    retrieveCalls,      \* connectPlaywright: calls of sessions.retrieve made
    cdpCalls,           \* connectPlaywright: calls of connectOverCDP made
    actionCount,        \* testWebsite: the local actionCount
    actionLog,          \* testWebsite: the local actionLog
    loopPc,             \* testWebsite: the await at which the call is
    decision,           \* testWebsite: the action analyzeAndAct returned
    asked,              \* testWebsite: calls of analyzeAndAct made
    events,             \* testWebsite: messages given to progressCallback
    produced,           \* action logs: timestamps of the entries produced
    logRows,            \* action logs: the rows of table action_logs
    readBack            \* action logs: what getActionLogs returned last

dbVars == <<tests, reports, actionLogs>>
queueVars == <<testQueue, isProcessingQueue, pqPc, processQueueCalls>>
startVars == <<nextId, startPc, startReply, sessions>>
stopVars == <<stopPc, stopSucceeded, stopCount>>
serverVars == <<nextId, tests, reports, actionLogs, activeSessions,
                testQueue, isProcessingQueue, pqPc, processQueueCalls,
                startPc, jobPc, browser,
                stopPc, sessions, endRequests, startReply, stopSucceeded,
                stopCount, reportSummary>>
clientVars == <<responseText, actionData>>
recordingVars == <<recordingRequest, recordingReply>>
builderVars == <<reportArgs, report>>
shutdownVars ==
    <<shutdownTests, runningTests, cleanupPc, released, endFailures>>
connectVars == <<connectAttempt, connectPc, retrieveCalls, cdpCalls>>
agentVars == <<actionCount, actionLog, loopPc, decision, asked, events>>
logVars == <<produced, logRows, readBack>>
sideVars ==
    <<clientVars, recordingVars, builderVars, shutdownVars, connectVars,
      agentVars, logVars>>

vars == <<nextId, tests, reports, actionLogs, activeSessions, testQueue,
          isProcessingQueue, pqPc, processQueueCalls, startPc, jobPc,
          browser, stopPc, sessions,
          endRequests, startReply, stopSucceeded, stopCount, reportSummary,
          responseText, actionData, recordingRequest, recordingReply,
          reportArgs, report,
          shutdownTests, runningTests, cleanupPc, released, endFailures,
          connectAttempt, connectPc, retrieveCalls, cdpCalls,
          actionCount, actionLog, loopPc, decision, asked, events,
          produced, logRows, readBack>>

----------------------------------------------------------------------------
(* Helpers on maps                                                         *)

Put(m, k, v) == [x \in (DOMAIN m) \cup {k} |-> IF x = k THEN v ELSE m[x]]

\* Remove, had the key been left in the map
RemoveNothing(m, k) == m

Remove(m, k) == [x \in (DOMAIN m) \ {k} |-> m[x]]

----------------------------------------------------------------------------
(* database/db.js                                                          *)

\* INSERT INTO tests ... VALUES (?, ?, 'pending', datetime('now'), ?)
\* id is the PRIMARY KEY: inserting an id that has a row throws.
createTestThrows(t, testId) == testId \in DOMAIN t

createTest(t, testId, browserbaseSessionId) ==
    Put(t, testId, [status |-> "pending",
                    sessionId |-> browserbaseSessionId,
                    error |-> NoError,
                    startedAt |-> FALSE,
                    completedAt |-> FALSE])

\* UPDATE tests SET ... WHERE id = ? (no row: nothing is updated)
updateTestStatus(t, testId, status, error) ==
    IF testId \notin DOMAIN t THEN t
    ELSE IF status = "running"
         THEN [t EXCEPT ![testId].status = status, ![testId].startedAt = TRUE]
    ELSE IF status = "completed" \/ status = "failed"
         THEN [t EXCEPT ![testId].status = status,
                        ![testId].completedAt = TRUE,
                        ![testId].error = error]
    ELSE [t EXCEPT ![testId].status = status]

\* createReport, had it inserted nothing
createReportSkipped(r, testId) == r

\* INSERT INTO reports (test_id, data_json, ...) VALUES (?, ?, ...)
createReport(r, testId) == [r EXCEPT ![testId] = @ + 1]

----------------------------------------------------------------------------
(* routes/test-routes.js: the reading endpoints                            *)

\* GET /:testId/status
StatusEndpoint(testId) ==
    IF testId \in DOMAIN activeSessions
    THEN [code |-> 200, status |-> activeSessions[testId].status,
          error |-> NoError]
    ELSE IF testId \notin DOMAIN tests
    THEN [code |-> 404, status |-> "none", error |-> NoError]
    ELSE [code |-> 200, status |-> tests[testId].status,
          error |-> tests[testId].error]

\* ReportEndpoint, had the status of the run not been checked
ReportEndpointAnyStatus(testId) ==
    IF testId \notin DOMAIN tests THEN 404
    ELSE IF reports[testId] = 0 THEN 404
    ELSE 200

\* GET /:testId/report
ReportEndpoint(testId) ==
    IF testId \notin DOMAIN tests THEN 404
    ELSE IF tests[testId].status # "completed" THEN 400
    ELSE IF reports[testId] = 0 THEN 404
    ELSE 200

----------------------------------------------------------------------------
\* the object {}: no member is defined (`key` holds the value of the
\* member "key" when there is one)
EmptyObject == [action |-> "undefined", reasoning |-> "undefined", key |-> {}]

\* no call of analyzeAndAct has been made
ClientIdle ==
    /\ responseText = [kind |-> "none", text |-> <<>>]
    /\ actionData = [kind |-> "none", value |-> EmptyObject]

\* no answer of GET recording yet
NoReply == [code |-> 0, recordingUrl |-> <<>>]

\* no GET recording request has been made
RecordingIdle ==
    /\ recordingRequest = [testId |-> 0, retrievals |-> <<>>]
    /\ recordingReply = NoReply

\* the server after start-up: empty tables, empty map, empty queue
ServerInit ==
    /\ nextId = 1
    /\ tests = <<>>
    /\ reports = [i \in Ids |-> 0]
    /\ actionLogs = [i \in Ids |-> 0]
    /\ activeSessions = <<>>
    /\ testQueue = <<>>
    /\ isProcessingQueue = FALSE
    /\ pqPc = [pc |-> "idle", testId |-> 0]
    /\ processQueueCalls = 0
    /\ startPc = [i \in Ids |-> "none"]
    /\ jobPc = [i \in Ids |-> "none"]
    /\ browser = [i \in Ids |-> FALSE]
    /\ stopPc = [i \in Ids |-> "idle"]
    /\ sessions = [i \in Ids |-> "none"]
    /\ endRequests = [i \in Ids |-> 0]
    /\ startReply = <<>>
    /\ stopSucceeded = {}
    /\ stopCount = 0
    /\ reportSummary = [i \in Ids |-> FALSE]

\* generateReport has not been called outside a job
BuilderIdle ==
    /\ reportArgs = [actionLogs |-> <<>>, retrievals |-> <<>>]
    /\ report = <<>>

\* no signal has asked the process to shut down
ShutdownIdle ==
    /\ shutdownTests = <<>>
    /\ runningTests = <<>>
    /\ cleanupPc = "idle"
    /\ released = {}
    /\ endFailures = {}

\* no action log has been produced
LogIdle ==
    /\ produced = <<>>
    /\ logRows = <<>>
    /\ readBack = <<>>

\* testWebsite has not been called
AgentIdle ==
    /\ actionCount = 0
    /\ actionLog = <<>>
    /\ loopPc = "idle"
    /\ decision = "none"
    /\ asked = 0
    /\ events = {}

\* connectPlaywright is followed no further than its outcome
ConnectIdle ==
    /\ connectAttempt = 0
    /\ connectPc = "idle"
    /\ retrieveCalls = 0
    /\ cdpCalls = 0

Init ==
    /\ ServerInit /\ ClientIdle /\ RecordingIdle /\ BuilderIdle
    /\ ShutdownIdle /\ ConnectIdle /\ AgentIdle /\ LogIdle

----------------------------------------------------------------------------
(* routes/test-routes.js: the admission limit and processQueue             *)

\* `activeSessions.size >= 1` in the start handler and in processQueue
SessionLimit == 1

AtLimit(as) == Cardinality(DOMAIN as) >= SessionLimit

\* testQueue.push({testId, ...})
Enqueue(q, testId) == Append(q, testId)

\* QueuePosition, had the length been read before the push
QueuePositionBeforePush(q) == Len(q) - 1

\* queuePosition: testQueue.length, read after the push
QueuePosition(q) == Len(q)

\* QueuedEntry, had the entry been stored as a running one
QueuedEntryRunning(q) == [status |-> "running",
                          queuePosition |-> QueuePosition(q)]

\* activeSessions.set(testId, {status: 'queued', queuePosition, ...}), with
\* q the pending list after the push
QueuedEntry(q) == [status |-> "queued", queuePosition |-> QueuePosition(q)]

\* The while loop of processQueue, from its condition to the next await.
\* `as` is the active map at that point.  With nothing pending, or with the
\* active map at the limit (`break`), the pass ends and clears its flag;
\* otherwise it takes the head of the queue and suspends in createSession.
DrainLoop(as) ==
    IF Len(testQueue) = 0 \/ AtLimit(as)
    THEN /\ isProcessingQueue' = FALSE
         /\ pqPc' = [pc |-> "idle", testId |-> 0]
         /\ UNCHANGED testQueue
    ELSE /\ isProcessingQueue' = TRUE
         /\ testQueue' = Tail(testQueue)
         /\ pqPc' = [pc |-> "createSession", testId |-> Head(testQueue)]

\* processQueue(), from its call to its first await: it returns at once
\* when a pass is in progress or nothing is pending, and otherwise sets its
\* flag and enters the loop.
processQueue(as) ==
    /\ processQueueCalls' = processQueueCalls + 1
    /\ IF isProcessingQueue \/ Len(testQueue) = 0
       THEN UNCHANGED <<testQueue, isProcessingQueue, pqPc>>
       ELSE DrainLoop(as)

----------------------------------------------------------------------------
(* routes/test-routes.js: POST /start                                      *)

\* StartAnswer, had only the presence of the url been checked
StartAnswerUnparsed(url) == IF url = "missing" THEN 400 ELSE 200

\* The answer to a request whose url is absent (`!url`) or is rejected by
\* `new URL(url)` is 400, sent before anything else is done.
StartAnswer(url) == IF url \in {"missing", "malformed"} THEN 400 ELSE 200

StartInvalid(url) ==
    /\ StartAnswer(url) = 400
    /\ UNCHANGED vars

\* the active map is at the limit: the request is queued
StartQueued(url) ==
    /\ StartAnswer(url) = 200
    /\ nextId <= MaxTests
    /\ AtLimit(activeSessions)
    /\ LET testId == nextId
           q == Enqueue(testQueue, testId)
       IN /\ nextId' = nextId + 1
          /\ tests' = updateTestStatus(createTest(tests, testId, 0),
                                       testId, "queued", NoError)
          /\ testQueue' = q
          /\ activeSessions' = Put(activeSessions, testId, QueuedEntry(q))
          /\ startReply' = Put(startReply, testId,
                               [code |-> 200, status |-> "queued",
                                queuePosition |-> QueuePosition(q),
                                message |-> NoError])
          /\ startPc' = [startPc EXCEPT ![testId] = "queued"]
    /\ UNCHANGED <<reports, actionLogs, isProcessingQueue, pqPc,
                   processQueueCalls, jobPc,
                   browser, sessions, endRequests, stopVars>>
    /\ UNCHANGED <<reportSummary, sideVars>>

\* below the limit: the handler suspends in `await createSession()`
StartImmediate(url) ==
    /\ StartAnswer(url) = 200
    /\ nextId <= MaxTests
    /\ ~AtLimit(activeSessions)
    /\ Cardinality({i \in Ids : startPc[i] \notin {"none", "queued"}})
         < MaxImmediate
    /\ nextId' = nextId + 1
    /\ startPc' = [startPc EXCEPT ![nextId] = "createSession"]
    /\ UNCHANGED <<dbVars, activeSessions, queueVars, jobPc, browser,
                   sessions, endRequests, startReply, stopVars>>
    /\ UNCHANGED <<reportSummary, sideVars>>

\* runTestInBackground(testId, ...), from its call to its first await: the
\* status is written and the active entry is set, then connectPlaywright
JobBegin(t, testId) == updateTestStatus(t, testId, "running", NoError)

\* createSession returned and the row was inserted: the job is started
\* inside the handler and the handler answers `starting`
StartSessionCreated(testId) ==
    /\ startPc[testId] = "createSession"
    /\ sessions' = [sessions EXCEPT ![testId] = "created"]
    /\ tests' = JobBegin(createTest(tests, testId, testId), testId)
    /\ activeSessions' = Put(activeSessions, testId,
                             [status |-> "running", queuePosition |-> 0])
    /\ jobPc' = [jobPc EXCEPT ![testId] = "connect"]
    /\ startReply' = Put(startReply, testId,
                         [code |-> 200, status |-> "starting",
                          queuePosition |-> 0, message |-> NoError])
    /\ startPc' = [startPc EXCEPT ![testId] = "replied"]
    /\ UNCHANGED <<nextId, reports, actionLogs, queueVars, browser,
                   endRequests, stopVars>>
    /\ UNCHANGED <<reportSummary, sideVars>>

\* createSession returned but createTest threw: the catch block ends the
\* session that was created (`await endSession(browserbaseSessionId)`)
StartInsertFailed(testId) ==
    /\ startPc[testId] = "createSession"
    /\ sessions' = [sessions EXCEPT ![testId] = "created"]
    /\ endRequests' = [endRequests EXCEPT ![testId] = @ + 1]
    /\ startPc' = [startPc EXCEPT ![testId] = "endSession"]
    /\ UNCHANGED <<nextId, dbVars, activeSessions, queueVars, jobPc,
                   browser, startReply, stopVars>>
    /\ UNCHANGED <<reportSummary, sideVars>>

\* FailureReply, had the catch block answered without setting the status
FailureReplyNoStatus(msg) ==
    [code |-> 200, status |-> "none", queuePosition |-> 0, message |-> msg]

\* the answer of the catch block: 500 with error.message
FailureReply(msg) ==
    [code |-> 500, status |-> "none", queuePosition |-> 0, message |-> msg]

\* the cleanup of the catch block is over: the session was released
StartCleanupDone(testId) ==
    /\ startPc[testId] = "endSession"
    /\ startReply' = Put(startReply, testId, FailureReply(InsertError))
    /\ startPc' = [startPc EXCEPT ![testId] = "insertFailed"]
    /\ UNCHANGED <<nextId, dbVars, activeSessions, queueVars, jobPc,
                   browser, sessions, endRequests, stopVars>>
    /\ UNCHANGED <<reportSummary, sideVars>>

\* StartCleanupFailed, had the failure of the cleanup ended the handler
\* before its answer
StartCleanupFailedUnanswered(testId) ==
    /\ startPc[testId] = "endSession"
    /\ startPc' = [startPc EXCEPT ![testId] = "cleanupFailed"]
    /\ UNCHANGED <<nextId, dbVars, activeSessions, queueVars, jobPc,
                   browser, sessions, endRequests, startReply, stopVars>>
    /\ UNCHANGED <<reportSummary, sideVars>>

\* the cleanup of the catch block failed: the release was refused, which
\* endSession logs (and `catch (cleanupError)` would log, had endSession
\* thrown); the answer is the one of the first error
StartCleanupFailed(testId) ==
    /\ startPc[testId] = "endSession"
    /\ startReply' = Put(startReply, testId, FailureReply(InsertError))
    /\ startPc' = [startPc EXCEPT ![testId] = "cleanupFailed"]
    /\ UNCHANGED <<nextId, dbVars, activeSessions, queueVars, jobPc,
                   browser, sessions, endRequests, stopVars>>
    /\ UNCHANGED <<reportSummary, sideVars>>

\* createSession threw: browserbaseSessionId is still null, nothing is
\* cleaned up
StartSessionFailed(testId) ==
    /\ startPc[testId] = "createSession"
    /\ sessions' = [sessions EXCEPT ![testId] = "failed"]
    /\ startReply' = Put(startReply, testId, FailureReply(SessionError))
    /\ startPc' = [startPc EXCEPT ![testId] = "sessionFailed"]
    /\ UNCHANGED <<nextId, dbVars, activeSessions, queueVars, jobPc,
                   browser, endRequests, stopVars>>
    /\ UNCHANGED <<reportSummary, sideVars>>

----------------------------------------------------------------------------
(* routes/test-routes.js: runTestInBackground                              *)

\* SetEntryStatus, had the catch block left the entry as it was
SetEntryStatusKept(as, testId, status) == as

\* `const session = activeSessions.get(testId); if (session) {...}`: the
\* entry's status is overwritten only when the entry is still there
SetEntryStatus(as, testId, status) ==
    IF testId \in DOMAIN as
    THEN [as EXCEPT ![testId].status = status]
    ELSE as

\* the guard of the catch block's endSession call: `if (browser)`
CatchEndsSession(hasBrowser) == hasBrowser

\* The catch block, entered with error.message = msg while the job's local
\* `browser` is hasBrowser.  The status is written and the entry updated;
\* with a browser the block suspends in endSession, without one it goes on
\* to delete the entry and to call processQueue.
JobCatch(testId, msg, hasBrowser) ==
    /\ tests' = updateTestStatus(tests, testId, "failed", msg)
    /\ IF CatchEndsSession(hasBrowser)
       THEN /\ activeSessions' = SetEntryStatus(activeSessions, testId,
                                                "failed")
            /\ endRequests' = [endRequests EXCEPT ![testId] = @ + 1]
            /\ jobPc' = [jobPc EXCEPT ![testId] = "cleanup"]
            /\ UNCHANGED queueVars
       ELSE /\ activeSessions' = Remove(activeSessions, testId)
            /\ processQueue(Remove(activeSessions, testId))
            /\ jobPc' = [jobPc EXCEPT ![testId] = "done"]
            /\ UNCHANGED endRequests

\* connectPlaywright returned {browser, page}
JobConnectOk(testId) ==
    /\ jobPc[testId] = "connect"
    /\ browser' = [browser EXCEPT ![testId] = TRUE]
    /\ jobPc' = [jobPc EXCEPT ![testId] = "navigate"]
    /\ UNCHANGED <<dbVars, activeSessions, queueVars, startVars,
                   endRequests, stopVars>>
    /\ UNCHANGED <<reportSummary, sideVars>>

\* connectPlaywright threw after its last attempt
JobConnectFail(testId) ==
    /\ jobPc[testId] = "connect"
    /\ JobCatch(testId, ConnectError, browser[testId])
    /\ UNCHANGED <<reports, actionLogs, startVars, browser, stopVars>>
    /\ UNCHANGED <<reportSummary, sideVars>>

\* setViewportSize, goto, waitForTimeout and title returned: the first
\* action log is saved
JobNavigateOk(testId) ==
    /\ jobPc[testId] = "navigate"
    /\ actionLogs' = [actionLogs EXCEPT ![testId] = @ + 1]
    /\ jobPc' = [jobPc EXCEPT ![testId] = "protocol"]
    /\ UNCHANGED <<tests, reports, activeSessions, queueVars, startVars,
                   browser, endRequests, stopVars>>
    /\ UNCHANGED <<reportSummary, sideVars>>

JobNavigateFail(testId) ==
    /\ jobPc[testId] = "navigate"
    /\ JobCatch(testId, NavigateError, browser[testId])
    /\ UNCHANGED <<reports, actionLogs, startVars, browser, stopVars>>
    /\ UNCHANGED <<reportSummary, sideVars>>

\* the screenshots and the scrolling are over: the second action log is
\* saved and the job suspends in `await page.title()`
JobProtocolOk(testId) ==
    /\ jobPc[testId] = "protocol"
    /\ actionLogs' = [actionLogs EXCEPT ![testId] = @ + 1]
    /\ jobPc' = [jobPc EXCEPT ![testId] = "pageTitle"]
    /\ UNCHANGED <<tests, reports, activeSessions, queueVars, startVars,
                   browser, endRequests, stopVars>>
    /\ UNCHANGED <<reportSummary, sideVars>>

JobProtocolFail(testId) ==
    /\ jobPc[testId] = "protocol"
    /\ JobCatch(testId, ProtocolError, browser[testId])
    /\ UNCHANGED <<reports, actionLogs, startVars, browser, stopVars>>
    /\ UNCHANGED <<reportSummary, sideVars>>

\* page.title() returned: `await endSession(browserbaseSessionId, browser)`,
\* which suspends in `await browser.close()`
JobPageTitleOk(testId) ==
    /\ jobPc[testId] = "pageTitle"
    /\ jobPc' = [jobPc EXCEPT ![testId] = "closeBrowser"]
    /\ UNCHANGED <<dbVars, activeSessions, queueVars, startVars, browser,
                   endRequests, stopVars>>
    /\ UNCHANGED <<reportSummary, sideVars>>

\* JobBrowserClosed, had endSession not asked for the release of the session
JobBrowserClosedOnly(testId) ==
    /\ jobPc[testId] = "closeBrowser"
    /\ jobPc' = [jobPc EXCEPT ![testId] = "release"]
    /\ UNCHANGED <<dbVars, activeSessions, queueVars, startVars, browser,
                   endRequests, stopVars>>
    /\ UNCHANGED <<reportSummary, sideVars>>

\* browser.close() returned or threw (which endSession only logs): the
\* release of the session is requested with sessions.update
JobBrowserClosed(testId) ==
    /\ jobPc[testId] = "closeBrowser"
    /\ endRequests' = [endRequests EXCEPT ![testId] = @ + 1]
    /\ jobPc' = [jobPc EXCEPT ![testId] = "release"]
    /\ UNCHANGED <<dbVars, activeSessions, queueVars, startVars, browser,
                   stopVars>>
    /\ UNCHANGED <<reportSummary, sideVars>>

\* sessions.update returned or threw (which endSession only logs):
\* endSession returns and generateReport is called, which suspends in
\* getRecordingUrl
JobSessionReleased(testId) ==
    /\ jobPc[testId] = "release"
    /\ jobPc' = [jobPc EXCEPT ![testId] = "report"]
    /\ UNCHANGED <<dbVars, activeSessions, queueVars, startVars, browser,
                   endRequests, stopVars>>
    /\ UNCHANGED <<reportSummary, sideVars>>

JobPageTitleFail(testId) ==
    /\ jobPc[testId] = "pageTitle"
    /\ JobCatch(testId, ProtocolError, browser[testId])
    /\ UNCHANGED <<reports, actionLogs, startVars, browser, stopVars>>
    /\ UNCHANGED <<reportSummary, sideVars>>

\* JobReportOk, had the status been written as soon as the report is there
JobReportOkCompletes(testId) ==
    /\ jobPc[testId] = "report"
    /\ reports' = createReport(reports, testId)
    /\ tests' = updateTestStatus(tests, testId, "completed", NoError)
    /\ jobPc' = [jobPc EXCEPT ![testId] = "summary"]
    /\ UNCHANGED <<actionLogs, activeSessions, queueVars, startVars,
                   browser, endRequests, stopVars>>
    /\ UNCHANGED <<reportSummary, sideVars>>

\* generateReport: createReport inserted the row and the report is returned;
\* the job suspends in the summary generation
JobReportOk(testId) ==
    /\ jobPc[testId] = "report"
    /\ reports' = createReport(reports, testId)
    /\ jobPc' = [jobPc EXCEPT ![testId] = "summary"]
    /\ UNCHANGED <<tests, actionLogs, activeSessions, queueVars, startVars,
                   browser, endRequests, stopVars>>
    /\ UNCHANGED <<reportSummary, sideVars>>

\* generateReport threw (`Report generation failed: ...`), no row inserted
JobReportFail(testId) ==
    /\ jobPc[testId] = "report"
    /\ JobCatch(testId, ReportError, browser[testId])
    /\ UNCHANGED <<reports, actionLogs, startVars, browser, stopVars>>
    /\ UNCHANGED <<reportSummary, sideVars>>

\* The code after the summary attempt: the status is written, the entry is
\* updated and deleted, and processQueue is called.
JobSummaryDone(testId) ==
    /\ jobPc[testId] = "summary"
    /\ tests' = updateTestStatus(tests, testId, "completed", NoError)
    /\ activeSessions' = Remove(activeSessions, testId)
    /\ processQueue(Remove(activeSessions, testId))
    /\ jobPc' = [jobPc EXCEPT ![testId] = "done"]
    /\ UNCHANGED <<reports, actionLogs, startVars, browser, endRequests,
                   stopVars, sideVars>>

\* getScreenshots, generateWebsiteSummary and updateReportSummary returned:
\* the report row has its summary
JobSummaryOk(testId) ==
    /\ reportSummary' = [reportSummary EXCEPT ![testId] = TRUE]
    /\ JobSummaryDone(testId)

\* SummaryErrorSwallowed, had the summary attempt not been in a try block
SummaryErrorPropagates == FALSE

\* `catch (summaryError) { console.error(...) }`: the error goes no further
SummaryErrorSwallowed == TRUE

\* one of getScreenshots, generateWebsiteSummary (`Summary generation
\* failed: ...`), the import and updateReportSummary threw
JobSummaryFail(testId) ==
    /\ jobPc[testId] = "summary"
    /\ UNCHANGED reportSummary
    /\ IF SummaryErrorSwallowed
       THEN JobSummaryDone(testId)
       ELSE /\ JobCatch(testId, SummaryError, browser[testId])
            /\ UNCHANGED <<reports, actionLogs, startVars, browser,
                           stopVars, sideVars>>

\* JobCleanupDone, had the catch block returned without calling processQueue
JobCleanupDoneOnly(testId) ==
    /\ jobPc[testId] = "cleanup"
    /\ activeSessions' = Remove(activeSessions, testId)
    /\ jobPc' = [jobPc EXCEPT ![testId] = "done"]
    /\ UNCHANGED <<dbVars, queueVars, startVars, browser, endRequests,
                   stopVars>>
    /\ UNCHANGED <<reportSummary, sideVars>>

\* the catch block's endSession returned: the entry is deleted and
\* processQueue is called
JobCleanupDone(testId) ==
    /\ jobPc[testId] = "cleanup"
    /\ activeSessions' = Remove(activeSessions, testId)
    /\ processQueue(Remove(activeSessions, testId))
    /\ jobPc' = [jobPc EXCEPT ![testId] = "done"]
    /\ UNCHANGED <<dbVars, startVars, browser, endRequests, stopVars>>
    /\ UNCHANGED <<reportSummary, sideVars>>

----------------------------------------------------------------------------
(* routes/test-routes.js: processQueue after its first await.  A pass gets *)
(* here only by finding the active map empty while a request is pending;  *)
(* every pending request has an entry in the active map (the start handler *)
(* sets it with status `queued`), so no reachable state enables these      *)
(* steps: PassNeverAdmits below states it, and they are not part of Next.  *)

\* createSession returned for the request taken from the queue.  createTest
\* inserts a second row for a testId that has one and throws; the catch
\* marks the run failed and the loop goes on.  Had the insert succeeded,
\* the job would be started and the pass would wait 2 s.
DrainSessionCreated ==
    /\ pqPc.pc = "createSession"
    /\ LET testId == pqPc.testId
       IN /\ sessions' = [sessions EXCEPT ![testId] = "created"]
          /\ IF createTestThrows(tests, testId)
             THEN /\ tests' = updateTestStatus(tests, testId, "failed",
                                               InsertError)
                  /\ DrainLoop(activeSessions)
                  /\ UNCHANGED <<activeSessions, jobPc>>
             ELSE /\ tests' = JobBegin(createTest(tests, testId, testId),
                                       testId)
                  /\ activeSessions' = Put(activeSessions, testId,
                                           [status |-> "running",
                                            queuePosition |-> 0])
                  /\ jobPc' = [jobPc EXCEPT ![testId] = "connect"]
                  /\ pqPc' = [pqPc EXCEPT !.pc = "delay"]
                  /\ UNCHANGED <<testQueue, isProcessingQueue>>
    /\ UNCHANGED <<nextId, reports, actionLogs, startPc, startReply, browser,
                   endRequests, stopVars, processQueueCalls>>
    /\ UNCHANGED <<reportSummary, sideVars>>

\* createSession threw for the request taken from the queue
DrainSessionFailed ==
    /\ pqPc.pc = "createSession"
    /\ sessions' = [sessions EXCEPT ![pqPc.testId] = "failed"]
    /\ tests' = updateTestStatus(tests, pqPc.testId, "failed", SessionError)
    /\ DrainLoop(activeSessions)
    /\ UNCHANGED <<nextId, reports, actionLogs, activeSessions, startPc,
                   startReply, jobPc, browser, endRequests, stopVars,
                   processQueueCalls>>
    /\ UNCHANGED <<reportSummary, sideVars>>

\* the 2 s wait is over
DrainDelayDone ==
    /\ pqPc.pc = "delay"
    /\ DrainLoop(activeSessions)
    /\ UNCHANGED <<dbVars, activeSessions, startVars, jobPc, browser,
                   endRequests, stopVars, processQueueCalls>>
    /\ UNCHANGED <<reportSummary, sideVars>>

----------------------------------------------------------------------------
(* routes/test-routes.js: POST /:testId/stop                               *)

\* StopAllowed, had the handler also accepted runs waiting in the queue
StopAllowedWhenQueued(status) == status \in {"running", "queued"}

\* `test.status !== 'running'` answers 400
StopAllowed(status) == status = "running"

\* The status code the handler answers with, from the state it finds: 404
\* without a row, 400 for a run that is not running, 200 otherwise (sent
\* once endSession is over).
StopAnswer(testId) ==
    IF testId \notin DOMAIN tests THEN 404
    ELSE IF ~StopAllowed(tests[testId].status) THEN 400
    ELSE 200

\* The handler, up to its answer or to `await endSession(...)`.
StopTest(testId) ==
    IF StopAnswer(testId) # 200
    THEN UNCHANGED vars
    ELSE /\ stopCount < MaxStops
         /\ stopCount' = stopCount + 1
         /\ tests' = updateTestStatus(tests, testId, "stopped", StopMessage)
         /\ activeSessions' = Remove(activeSessions, testId)
         /\ IF tests[testId].sessionId # 0
            THEN /\ endRequests' = [endRequests EXCEPT
                                       ![tests[testId].sessionId] = @ + 1]
                 /\ stopPc' = [stopPc EXCEPT ![testId] = "endSession"]
                 /\ UNCHANGED stopSucceeded
            ELSE /\ stopSucceeded' = stopSucceeded \cup {testId}
                 /\ UNCHANGED <<endRequests, stopPc>>
         /\ UNCHANGED <<nextId, reports, actionLogs, queueVars, startPc,
                        jobPc, browser, sessions, startReply, reportSummary,
                        sideVars>>

\* endSession returned (or threw, which is only logged): 200 `stopped`
StopEndSessionDone(testId) ==
    /\ stopPc[testId] = "endSession"
    /\ stopPc' = [stopPc EXCEPT ![testId] = "idle"]
    /\ stopSucceeded' = stopSucceeded \cup {testId}
    /\ UNCHANGED <<dbVars, activeSessions, queueVars, startVars, jobPc,
                   browser, endRequests, stopCount>>
    /\ UNCHANGED <<reportSummary, sideVars>>

----------------------------------------------------------------------------
Next ==
    \/ \E url \in Urls : StartInvalid(url)
    \/ \E url \in Urls : StartQueued(url)
    \/ \E url \in Urls : StartImmediate(url)
    \/ \E testId \in Ids :
          \/ StartSessionCreated(testId)
          \/ StartInsertFailed(testId)
          \/ StartCleanupDone(testId)
          \/ StartCleanupFailed(testId)
          \/ StartSessionFailed(testId)
          \/ JobConnectOk(testId)
          \/ JobConnectFail(testId)
          \/ JobNavigateOk(testId)
          \/ JobNavigateFail(testId)
          \/ JobProtocolOk(testId)
          \/ JobProtocolFail(testId)
          \/ JobPageTitleOk(testId)
          \/ JobPageTitleFail(testId)
          \/ JobBrowserClosed(testId)
          \/ JobSessionReleased(testId)
          \/ JobReportOk(testId)
          \/ JobReportFail(testId)
          \/ JobSummaryOk(testId)
          \/ JobSummaryFail(testId)
          \/ JobCleanupDone(testId)
          \/ StopTest(testId)
          \/ StopEndSessionDone(testId)

Spec == Init /\ [][Next]_vars

\* one step of the job of run testId: the call it awaits returns or throws
JobStep(testId) ==
    \/ JobConnectOk(testId)
    \/ JobConnectFail(testId)
    \/ JobNavigateOk(testId)
    \/ JobNavigateFail(testId)
    \/ JobProtocolOk(testId)
    \/ JobProtocolFail(testId)
    \/ JobPageTitleOk(testId)
    \/ JobPageTitleFail(testId)
    \/ JobBrowserClosed(testId)
    \/ JobSessionReleased(testId)
    \/ JobReportOk(testId)
    \/ JobReportFail(testId)
    \/ JobSummaryOk(testId)
    \/ JobSummaryFail(testId)
    \/ JobCleanupDone(testId)

\* The server when every call a job awaits is settled in the end: a job
\* that is suspended in an await is resumed.
JobSpec == Init /\ [][Next]_vars /\ \A i \in Ids : WF_vars(JobStep(i))

\* a start handler is suspended in one of its awaits
StartInFlight == \E i \in Ids : startPc[i] \in {"createSession", "endSession"}

\* The server when its clients send the start requests one at a time: no
\* start request arrives while the handler of another is suspended.
SerialNext ==
    \/ ~StartInFlight /\ \E url \in Urls : StartInvalid(url)
    \/ ~StartInFlight /\ \E url \in Urls : StartQueued(url)
    \/ ~StartInFlight /\ \E url \in Urls : StartImmediate(url)
    \/ \E testId \in Ids :
          \/ StartSessionCreated(testId)
          \/ StartInsertFailed(testId)
          \/ StartCleanupDone(testId)
          \/ StartCleanupFailed(testId)
          \/ StartSessionFailed(testId)
          \/ JobConnectOk(testId)
          \/ JobConnectFail(testId)
          \/ JobNavigateOk(testId)
          \/ JobNavigateFail(testId)
          \/ JobProtocolOk(testId)
          \/ JobProtocolFail(testId)
          \/ JobPageTitleOk(testId)
          \/ JobPageTitleFail(testId)
          \/ JobBrowserClosed(testId)
          \/ JobSessionReleased(testId)
          \/ JobReportOk(testId)
          \/ JobReportFail(testId)
          \/ JobSummaryOk(testId)
          \/ JobSummaryFail(testId)
          \/ JobCleanupDone(testId)
          \/ StopTest(testId)
          \/ StopEndSessionDone(testId)

SerialSpec == Init /\ [][SerialNext]_vars

----------------------------------------------------------------------------
(* services/browserbase-service.js: getRecordingUrl, and GET recording     *)

\* `maxRetries = 5`, the default the handler and generateReport call with
maxRetries == 5

\* what one `await browserbase.sessions.retrieve(sessionId)` can give: a
\* session that is COMPLETED or has endedAt, a session that is neither, or
\* an error
Retrievals == {"completed", "running", "error"}

\* `https://browserbase.com/sessions/${sessionId}`
RecordingUrlOf(sessionId) == <<"https://browserbase.com/sessions/", sessionId>>

\* The for loop of getRecordingUrl from attempt `attempt` on, outcomes[k]
\* being what the k-th retrieval gives: the url is returned at the first
\* completed session; an error is caught and the loop goes on; after the
\* last attempt the url is returned `anyway`.
\* AfterRetries, had the call given null once its attempts are used up
AfterRetriesNull(sessionId) == <<>>

\* after the loop: `Even if session is not marked as completed, return the
\* URL anyway`
AfterRetries(sessionId) == RecordingUrlOf(sessionId)

RECURSIVE RetrieveLoop(_, _, _)
RetrieveLoop(sessionId, outcomes, attempt) ==
    IF attempt > maxRetries THEN AfterRetries(sessionId)
    ELSE IF outcomes[attempt] = "completed" THEN RecordingUrlOf(sessionId)
    ELSE RetrieveLoop(sessionId, outcomes, attempt + 1)

getRecordingUrl(sessionId, outcomes) == RetrieveLoop(sessionId, outcomes, 1)

\* the number of `await browserbase.sessions.retrieve(sessionId)` the loop
\* makes from `attempt` on
RECURSIVE RetrieveCalls(_, _)
RetrieveCalls(outcomes, attempt) ==
    IF attempt > maxRetries THEN 0
    ELSE IF outcomes[attempt] = "completed" THEN 1
    ELSE 1 + RetrieveCalls(outcomes, attempt + 1)

\* GET /:testId/recording, outcomes[k] being what the k-th retrieval of the
\* session gives (sessionId 0: browserbase_session_id is null)
RecordingEndpoint(testId, outcomes) ==
    IF testId \notin DOMAIN tests
    THEN [code |-> 404, recordingUrl |-> <<>>]
    ELSE IF tests[testId].sessionId = 0
    THEN [code |-> 400, recordingUrl |-> <<>>]
    ELSE LET recordingUrl ==
                 getRecordingUrl(tests[testId].sessionId, outcomes)
         IN IF recordingUrl = <<>>
            THEN [code |-> 404, recordingUrl |-> <<>>]
            ELSE [code |-> 200, recordingUrl |-> recordingUrl]

\* The server once run 1, admitted at once, is completed with its report and
\* summary, and the request for run 2, which arrived meanwhile, is queued.
AfterOneRun ==
    /\ nextId = 3
    /\ tests = updateTestStatus(
                   createTest(
                       updateTestStatus(
                           JobBegin(createTest(<<>>, 1, 1), 1),
                           1, "completed", NoError),
                       2, 0),
                   2, "queued", NoError)
    /\ reports = [i \in Ids |-> IF i = 1 THEN 1 ELSE 0]
    /\ actionLogs = [i \in Ids |-> IF i = 1 THEN 2 ELSE 0]
    /\ activeSessions = Put(<<>>, 2, [status |-> "queued",
                                      queuePosition |-> 1])
    /\ testQueue = <<2>>
    /\ isProcessingQueue = FALSE
    /\ pqPc = [pc |-> "idle", testId |-> 0]
    /\ processQueueCalls = 1
    /\ startPc = [i \in Ids |-> IF i = 1 THEN "replied"
                                ELSE IF i = 2 THEN "queued" ELSE "none"]
    /\ jobPc = [i \in Ids |-> IF i = 1 THEN "done" ELSE "none"]
    /\ browser = [i \in Ids |-> i = 1]
    /\ stopPc = [i \in Ids |-> "idle"]
    /\ sessions = [i \in Ids |-> IF i = 1 THEN "created" ELSE "none"]
    /\ endRequests = [i \in Ids |-> IF i = 1 THEN 1 ELSE 0]
    /\ startReply =
          Put(Put(<<>>, 1, [code |-> 200, status |-> "starting",
                            queuePosition |-> 0, message |-> NoError]),
              2, [code |-> 200, status |-> "queued",
                  queuePosition |-> 1, message |-> NoError])
    /\ stopSucceeded = {}
    /\ stopCount = 0
    /\ reportSummary = [i \in Ids |-> i = 1]

\* the requests considered: for the completed run, for the queued run (no
\* session) and for an unknown testId; with every course of the retrievals
RecordingRequests ==
    [testId : 1..3, retrievals : [1..maxRetries -> Retrievals]]

RecordingInit ==
    /\ ConnectIdle
    /\ AgentIdle
    /\ LogIdle
    /\ ShutdownIdle
    /\ AfterOneRun
    /\ ClientIdle
    /\ BuilderIdle
    /\ recordingRequest \in RecordingRequests
    /\ recordingReply = NoReply

\* the handler, from the request to its answer
GetRecording ==
    /\ recordingReply = NoReply
    /\ recordingReply' = RecordingEndpoint(recordingRequest.testId,
                                           recordingRequest.retrievals)
    /\ UNCHANGED <<serverVars, clientVars, builderVars, shutdownVars,
                   connectVars, agentVars, logVars,
                   recordingRequest>>

RecordingNext == GetRecording

RecordingSpec == RecordingInit /\ [][RecordingNext]_vars

----------------------------------------------------------------------------
(* utils/cleanup.js: analyzeAndAct, from the answer of messages.create on  *)
(*                                                                         *)
(* The text of the model is a sequence of lexical units: the two braces,   *)
(* the comma, the member `"action":"click"` (a), the member                *)
(* `"reasoning":"test"` (r), the start `"key":` of a member whose value    *)
(* follows (k), and any other character (x).                               *)

Chars == {"{", "}", ",", "a", "r", "k", "x"}

\* Longest text considered.
MaxTextLen == 5

Texts == UNION {[1..n -> Chars] : n \in 0..MaxTextLen}

\* `responseText.match(/\{[\s\S]*\}/)`: the pattern is greedy and `[\s\S]`
\* matches every character, so the match runs from the first "{" to the
\* last "}" of the text; null when no "}" follows the first "{".
Match(text) ==
    LET opens == {i \in 1..Len(text) : text[i] = "{"}
        closes == {i \in 1..Len(text) : text[i] = "}"}
        first == CHOOSE i \in opens : \A j \in opens : i <= j
        last == CHOOSE i \in closes : \A j \in closes : i >= j
    IN IF opens = {} \/ closes = {} THEN [found |-> FALSE, text |-> <<>>]
       ELSE IF last < first THEN [found |-> FALSE, text |-> <<>>]
       ELSE [found |-> TRUE, text |-> SubSeq(text, first, last)]

\* JSON.parse on a text that starts with "{": an object is "{" "}" or "{"
\* members separated by commas "}", a member is a, r, or k followed by an
\* object; a member read later replaces an earlier one of the same name.
SyntaxError == [ok |-> FALSE, next |-> 0, value |-> EmptyObject]

RECURSIVE ParseObject(_, _), ParseMembers(_, _, _)
ParseObject(s, i) ==
    IF i > Len(s) THEN SyntaxError
    ELSE IF s[i] # "{" THEN SyntaxError
    ELSE IF i + 1 <= Len(s) /\ s[i + 1] = "}"
    THEN [ok |-> TRUE, next |-> i + 2, value |-> EmptyObject]
    ELSE ParseMembers(s, i + 1, EmptyObject)

ParseMembers(s, i, acc) ==
    IF i > Len(s) THEN SyntaxError
    ELSE LET m == IF s[i] = "a"
                  THEN [ok |-> TRUE, next |-> i + 1,
                        value |-> [acc EXCEPT !.action = "click"]]
                  ELSE IF s[i] = "r"
                  THEN [ok |-> TRUE, next |-> i + 1,
                        value |-> [acc EXCEPT !.reasoning = "test"]]
                  ELSE IF s[i] = "k"
                  THEN LET o == ParseObject(s, i + 1)
                       IN [ok |-> o.ok, next |-> o.next,
                           value |-> [acc EXCEPT !.key = {o.value}]]
                  ELSE SyntaxError
         IN IF ~m.ok THEN SyntaxError
            ELSE IF m.next > Len(s) THEN SyntaxError
            ELSE IF s[m.next] = "}"
            THEN [ok |-> TRUE, next |-> m.next + 1, value |-> m.value]
            ELSE IF s[m.next] = ","
            THEN ParseMembers(s, m.next + 1, m.value)
            ELSE SyntaxError

\* JSON.parse(s): the whole of s must be one object
JSONparse(s) ==
    LET o == ParseObject(s, 1)
    IN IF o.ok /\ o.next = Len(s) + 1
       THEN [ok |-> TRUE, value |-> o.value]
       ELSE [ok |-> FALSE, value |-> EmptyObject]

Returned(object) == [kind |-> "returned", value |-> object]

\* `throw new Error(`AI analysis failed: ...`)` of the outer catch
Thrown == [kind |-> "thrown", value |-> EmptyObject]

\* the default action when the text has no match
NoMatchAction ==
    [action |-> "complete",
     reasoning |-> "Could not parse action from response", key |-> {}]

\* ParseErrorCaught, had JSON.parse not been inside the inner try block
ParseErrorUncaught == Thrown

\* `catch (parseError)`: the default action when JSON.parse throws
ParseErrorCaught ==
    Returned([action |-> "complete", reasoning |-> "Invalid response format",
              key |-> {}])

\* analyzeAndAct once messages.create has returned or thrown.  Reading
\* `message.content[0].text` of a message without content throws outside
\* the inner try block.
analyzeAndAct(response) ==
    IF response.kind \in {"error", "noContent"} THEN Thrown
    ELSE LET jsonMatch == Match(response.text)
         IN IF ~jsonMatch.found THEN Returned(NoMatchAction)
            ELSE LET parsed == JSONparse(jsonMatch.text)
                 IN IF parsed.ok THEN Returned(parsed.value)
                    ELSE ParseErrorCaught

\* what messages.create can produce: an error, a message whose content is
\* empty, or a message with a text
Responses ==
    {[kind |-> "error", text |-> <<>>], [kind |-> "noContent", text |-> <<>>]}
        \cup {[kind |-> "text", text |-> t] : t \in Texts}

ClientInit ==
    /\ ConnectIdle
    /\ AgentIdle
    /\ LogIdle
    /\ ShutdownIdle
    /\ ServerInit
    /\ RecordingIdle
    /\ BuilderIdle
    /\ responseText \in Responses
    /\ actionData = [kind |-> "none", value |-> EmptyObject]

\* the call of analyzeAndAct returns or throws
AnalyzeAndAct ==
    /\ actionData.kind = "none"
    /\ actionData' = analyzeAndAct(responseText)
    /\ UNCHANGED <<serverVars, recordingVars, builderVars, shutdownVars,
                   connectVars, agentVars, logVars,
                   responseText>>

ClientNext == AnalyzeAndAct

ClientSpec == ClientInit /\ [][ClientNext]_vars

----------------------------------------------------------------------------
(* services/report-service.js: generateReport, up to createReport          *)
(*                                                                         *)
(* An entry of the action log is modelled by its result.success and its    *)
(* context.url ("" when it has none); the entry at position k carries the  *)
(* timestamp k.  Numbers that are floating point in the code are exact     *)
(* fractions [num, den] here.                                              *)

PageUrls == {"", "/", "/about"}

\* Longest action log considered.
MaxLogLen == 3

LogEntries == [success : BOOLEAN, url : PageUrls]

ActionLogLists == UNION {[1..n -> LogEntries] : n \in 0..MaxLogLen}

Positions(logs) == [k \in 1..Len(logs) |-> k]

\* `[...new Set(values)]`: the values in the order of their first insertion
RECURSIVE SetOf(_)
SetOf(values) ==
    IF values = <<>> THEN <<>>
    ELSE LET front == SetOf(SubSeq(values, 1, Len(values) - 1))
             last == values[Len(values)]
         IN IF \E k \in 1..Len(front) : front[k] = last
            THEN front
            ELSE Append(front, last)

\* `[...new Set(actionLogs.map(log => log.context?.url).filter(Boolean))]`
pagesVisited(logs) ==
    SetOf(SelectSeq([k \in 1..Len(logs) |-> logs[k].url],
                    LAMBDA url : url # ""))

\* navigationPath, had the step been the position of the entry in the log
navigationPathByLogIndex(logs) ==
    LET kept == SelectSeq(Positions(logs), LAMBDA k : logs[k].url # "")
    IN [i \in 1..Len(kept) |->
           [step |-> kept[i], url |-> logs[kept[i]].url,
            timestamp |-> kept[i]]]

\* `actionLogs.filter(log => log.context?.url).map((log, index) => ...)`
navigationPath(logs) ==
    LET kept == SelectSeq(Positions(logs), LAMBDA k : logs[k].url # "")
    IN [i \in 1..Len(kept) |->
           [step |-> i, url |-> logs[kept[i]].url, timestamp |-> kept[i]]]

\* `actionLogs.forEach(log => { if (!log.result.success) issues.push(...) })`
issues(logs) ==
    LET failed == SelectSeq(Positions(logs), LAMBDA k : ~logs[k].success)
    IN [i \in 1..Len(failed) |->
           [severity |-> "error", type |-> "action_failed",
            timestamp |-> failed[i], page |-> logs[failed[i]].url]]

\* `actionLogs.map((log, index) => ({step: index + 1, ...}))`
actionsTimeline(logs) ==
    [k \in 1..Len(logs) |->
        [step |-> k, timestamp |-> k, success |-> logs[k].success,
         page |-> logs[k].url]]

\* `startTime && endTime ? new Date(endTime) - new Date(startTime) : 0`
duration(logs) == IF Len(logs) = 0 THEN 0 ELSE Len(logs) - 1

\* successRate, had the entries that failed been the ones counted
successRateOfFailures(logs) ==
    IF Len(logs) > 0
    THEN [num |-> Len(SelectSeq(logs, LAMBDA log : ~log.success)) * 100,
          den |-> Len(logs)]
    ELSE [num |-> 0, den |-> 1]

\* performanceMetrics.successRate:
\* `length > 0 ? (filter(log => log.result.success).length / length) * 100 : 0`
successRate(logs) ==
    IF Len(logs) > 0
    THEN [num |-> Len(SelectSeq(logs, LAMBDA log : log.success)) * 100,
          den |-> Len(logs)]
    ELSE [num |-> 0, den |-> 1]

\* `x.toFixed(2) + '%'`: x to the nearest hundredth, the larger of the two
\* when it is half way; the digits are kept as a number of hundredths
toFixed2Percent(x) ==
    [hundredths |-> (200 * x.num + x.den) \div (2 * x.den), unit |-> "%"]

\* generateReport, had the duration been measured up to the time of the call
generateReportToNow(args, now) ==
    LET logs == args.actionLogs
    IN [recordingUrl |-> getRecordingUrl(1, args.retrievals),
        timestamp |-> now,
        summary |-> [pagesVisited |-> Len(pagesVisited(logs)),
                     actionsPerformed |-> Len(logs),
                     issuesFound |-> Len(issues(logs)),
                     duration |-> duration(logs) + now,
                     successRate |-> toFixed2Percent(successRate(logs))],
        navigationPath |-> navigationPath(logs),
        pagesVisited |-> pagesVisited(logs),
        actionsTimeline |-> actionsTimeline(logs),
        issues |-> issues(logs),
        performanceMetrics |-> [totalDuration |-> duration(logs) + now,
                                successRate |-> successRate(logs)]]

\* The report built by one call: `now` is what new Date() gives the call.
generateReport(args, now) ==
    LET logs == args.actionLogs
    IN [recordingUrl |-> getRecordingUrl(1, args.retrievals),
        timestamp |-> now,
        summary |-> [pagesVisited |-> Len(pagesVisited(logs)),
                     actionsPerformed |-> Len(logs),
                     issuesFound |-> Len(issues(logs)),
                     duration |-> duration(logs),
                     successRate |-> toFixed2Percent(successRate(logs))],
        navigationPath |-> navigationPath(logs),
        pagesVisited |-> pagesVisited(logs),
        actionsTimeline |-> actionsTimeline(logs),
        issues |-> issues(logs),
        performanceMetrics |-> [totalDuration |-> duration(logs),
                                successRate |-> successRate(logs)]]

\* the courses of the retrievals considered for the recording url: the
\* session is seen completed at once, or never
RetrievalCourses ==
    {[k \in 1..maxRetries |-> "completed"], [k \in 1..maxRetries |-> "error"]}

\* the values new Date() takes
Clock == 1..2

BuilderInit ==
    /\ ConnectIdle
    /\ AgentIdle
    /\ LogIdle
    /\ ShutdownIdle
    /\ ServerInit
    /\ ClientIdle
    /\ RecordingIdle
    /\ reportArgs \in [actionLogs : ActionLogLists,
                        retrievals : RetrievalCourses]
    /\ report = <<>>

\* generateReport is called with the arguments, at most twice
GenerateReport(now) ==
    /\ Len(report) < 2
    /\ report' = Append(report, generateReport(reportArgs, now))
    /\ UNCHANGED <<serverVars, clientVars, recordingVars, shutdownVars,
                   connectVars, agentVars, logVars,
                   reportArgs>>

BuilderNext == \E now \in Clock : GenerateReport(now)

BuilderSpec == BuilderInit /\ [][BuilderNext]_vars

----------------------------------------------------------------------------
(* utils/cleanup.js: cleanupOnExit, run on SIGTERM, on SIGINT and on an    *)
(* uncaught exception                                                      *)
(*                                                                         *)
(* The rows of table tests are kept in the order of their created_at, the  *)
(* oldest first: the row at position k was the k-th to be inserted.        *)

\* Number of rows the table holds when the process is asked to stop.
MaxRows == 102

\* `getAllTests(100)` in cleanupOnExit
CleanupLimit == 100

\* SELECT * FROM tests ORDER BY created_at DESC LIMIT ?: the positions of the
\* rows returned, the newest first
getAllTests(t, limit) ==
    LET count == IF Len(t) < limit THEN Len(t) ELSE limit
    IN [k \in 1..count |-> Len(t) - k + 1]

\* tests.filter(test => test.status === 'running' || ... === 'starting')
RunningOf(t, list) ==
    SelectSeq(list, LAMBDA id : t[id].status \in {"running", "starting"})

ShutdownMessage == "Server shutdown"

\* The for loop of cleanupOnExit from the test at the head of `rest` up to
\* its next await (`await endSession(test.browserbase_session_id)`) or,
\* when no test is left, up to db.close() and process.exit(0).
RECURSIVE CleanupLoop(_, _)
CleanupLoop(t, rest) ==
    IF rest = <<>>
    THEN [tests |-> t, runningTests |-> rest, pc |-> "exited"]
    ELSE LET id == Head(rest)
             updated == updateTestStatus(t, id, "stopped", ShutdownMessage)
         IN IF t[id].sessionId # 0
            THEN [tests |-> updated, runningTests |-> rest,
                  pc |-> "endSession"]
            ELSE CleanupLoop(updated, Tail(rest))

\* the rows a table can hold: a run that is running with its session, one
\* running before its session was stored, a completed run, a queued run
RowKinds ==
    {[status |-> "running", sessionId |-> 1, error |-> NoError,
      startedAt |-> TRUE, completedAt |-> FALSE],
     [status |-> "running", sessionId |-> 0, error |-> NoError,
      startedAt |-> TRUE, completedAt |-> FALSE],
     [status |-> "completed", sessionId |-> 1, error |-> NoError,
      startedAt |-> TRUE, completedAt |-> TRUE],
     [status |-> "queued", sessionId |-> 0, error |-> NoError,
      startedAt |-> FALSE, completedAt |-> FALSE]}

QueuedRow ==
    [status |-> "queued", sessionId |-> 0, error |-> NoError,
     startedAt |-> FALSE, completedAt |-> FALSE]

\* the tables considered: n rows, of which the two oldest and the newest are
\* of any kind and the rows between them are queued runs
TableOf(n, first, second, last) ==
    [k \in 1..n |-> IF k = n THEN last
                    ELSE IF k = 1 THEN first
                    ELSE IF k = 2 THEN second
                    ELSE QueuedRow]

ShutdownInit ==
    /\ ConnectIdle
    /\ AgentIdle
    /\ LogIdle
    /\ ServerInit
    /\ ClientIdle
    /\ RecordingIdle
    /\ BuilderIdle
    /\ \E n \in 1..MaxRows : \E first, second, last \in RowKinds :
           shutdownTests = TableOf(n, first, second, last)
    /\ runningTests = <<>>
    /\ cleanupPc = "idle"
    /\ released = {}
    /\ endFailures = {}

\* where the loop stopped: the table, the tests left, and the end request
\* issued when it stopped at an await
CleanupGoesOn(t, rest) ==
    LET next == CleanupLoop(t, rest)
    IN /\ shutdownTests' = next.tests
       /\ runningTests' = next.runningTests
       /\ cleanupPc' = next.pc
       /\ released' = IF next.pc = "endSession"
                      THEN released \cup {Head(next.runningTests)}
                      ELSE released

\* the signal arrives: the running tests are listed and the loop starts
CleanupOnExit ==
    /\ cleanupPc = "idle"
    /\ CleanupGoesOn(shutdownTests,
                     RunningOf(shutdownTests,
                               getAllTests(shutdownTests, CleanupLimit)))
    /\ UNCHANGED <<serverVars, clientVars, recordingVars, builderVars,
                   connectVars, agentVars, logVars,
                   endFailures>>

\* endSession is over for the test at the head of the list: the release was
\* accepted, or it failed (which endSession logs, and the loop would log
\* had endSession thrown); the loop goes on with the next test
EndSessionSettles(outcome) ==
    /\ cleanupPc = "endSession"
    /\ endFailures' = IF outcome = "failed"
                      THEN endFailures \cup {Head(runningTests)}
                      ELSE endFailures
    /\ CleanupGoesOn(shutdownTests, Tail(runningTests))
    /\ UNCHANGED <<serverVars, clientVars, recordingVars, builderVars,
                   connectVars, agentVars, logVars>>

ShutdownNext ==
    \/ CleanupOnExit
    \/ \E outcome \in {"released", "failed"} : EndSessionSettles(outcome)

ShutdownSpec == ShutdownInit /\ [][ShutdownNext]_vars

----------------------------------------------------------------------------
(* services/browserbase-service.js: connectPlaywright, as its caller       *)
(* runTestInBackground awaits it                                           *)

\* `const maxRetries = 20` in connectPlaywright
connectMaxRetries == 20

\* the job of run 1 has just called connectPlaywright, which suspends in its
\* first `await browserbase.sessions.retrieve(sessionId)`
RunConnecting ==
    /\ nextId = 2
    /\ tests = JobBegin(createTest(<<>>, 1, 1), 1)
    /\ reports = [i \in Ids |-> 0]
    /\ actionLogs = [i \in Ids |-> 0]
    /\ activeSessions = Put(<<>>, 1, [status |-> "running",
                                      queuePosition |-> 0])
    /\ testQueue = <<>>
    /\ isProcessingQueue = FALSE
    /\ pqPc = [pc |-> "idle", testId |-> 0]
    /\ processQueueCalls = 0
    /\ startPc = [i \in Ids |-> IF i = 1 THEN "replied" ELSE "none"]
    /\ jobPc = [i \in Ids |-> IF i = 1 THEN "connect" ELSE "none"]
    /\ browser = [i \in Ids |-> FALSE]
    /\ stopPc = [i \in Ids |-> "idle"]
    /\ sessions = [i \in Ids |-> IF i = 1 THEN "created" ELSE "none"]
    /\ endRequests = [i \in Ids |-> 0]
    /\ startReply = Put(<<>>, 1, [code |-> 200, status |-> "starting",
                                  queuePosition |-> 0, message |-> NoError])
    /\ stopSucceeded = {}
    /\ stopCount = 0
    /\ reportSummary = [i \in Ids |-> FALSE]

ConnectInit ==
    /\ AgentIdle
    /\ LogIdle
    /\ RunConnecting
    /\ ClientIdle
    /\ RecordingIdle
    /\ BuilderIdle
    /\ ShutdownIdle
    /\ connectAttempt = 1
    /\ connectPc = "retrieve"
    /\ retrieveCalls = 1
    /\ cdpCalls = 0

\* what the steps of connectPlaywright leave alone
ConnectCallGoesOn ==
    UNCHANGED <<serverVars, clientVars, recordingVars, builderVars,
                shutdownVars, agentVars, logVars>>

\* connectPlaywright threw `Failed to connect Playwright: ...`: the catch
\* block of runTestInBackground runs
ConnectThrown ==
    /\ connectPc' = "thrown"
    /\ JobCatch(1, ConnectError, browser[1])
    /\ UNCHANGED <<reports, actionLogs, startVars, browser, stopVars,
                   reportSummary, clientVars, recordingVars, builderVars,
                   shutdownVars, agentVars, logVars, connectAttempt,
                   retrieveCalls, cdpCalls>>

\* CatchRetries, had the catch block given up one attempt later
CatchRetriesOnceMore == connectAttempt # connectMaxRetries + 1

\* `if (attempt === maxRetries) throw ...` in the catch block: FALSE on the
\* last attempt
CatchRetries == connectAttempt # connectMaxRetries

\* the catch block of an attempt: it throws on the last attempt and awaits
\* the retry delay on the others
ConnectCatch ==
    IF CatchRetries
    THEN /\ connectPc' = "delay"
         /\ UNCHANGED <<connectAttempt, retrieveCalls, cdpCalls>>
         /\ ConnectCallGoesOn
    ELSE ConnectThrown

\* sessions.retrieve threw
RetrieveThrows ==
    /\ connectPc = "retrieve"
    /\ ConnectCatch

\* the session retrieved has none of connectUrl, debuggerUrl and debugUrl:
\* the delay is awaited when `attempt < maxRetries`, and otherwise `Session
\* connect URL not available after retries` is thrown into the catch block
RetrieveWithoutUrl ==
    /\ connectPc = "retrieve"
    /\ IF connectAttempt < connectMaxRetries
       THEN /\ connectPc' = "delay"
            /\ UNCHANGED <<connectAttempt, retrieveCalls, cdpCalls>>
            /\ ConnectCallGoesOn
       ELSE ConnectCatch

\* the session retrieved has a connect URL: chromium.connectOverCDP is called
RetrieveWithUrl ==
    /\ connectPc = "retrieve"
    /\ connectPc' = "connectOverCDP"
    /\ cdpCalls' = cdpCalls + 1
    /\ UNCHANGED <<connectAttempt, retrieveCalls>>
    /\ ConnectCallGoesOn

\* connectOverCDP returned and the context and the page were obtained:
\* connectPlaywright returns them and the job goes on to the navigation
CdpConnected ==
    /\ connectPc = "connectOverCDP"
    /\ connectPc' = "returned"
    /\ browser' = [browser EXCEPT ![1] = TRUE]
    /\ jobPc' = [jobPc EXCEPT ![1] = "navigate"]
    /\ UNCHANGED <<dbVars, activeSessions, queueVars, startVars,
                   endRequests, stopVars, reportSummary, clientVars,
                   recordingVars, builderVars, shutdownVars, agentVars,
                   logVars, connectAttempt, retrieveCalls, cdpCalls>>

\* connectOverCDP, newContext or newPage threw
CdpThrows ==
    /\ connectPc = "connectOverCDP"
    /\ ConnectCatch

\* the retry delay is over: `attempt++`, and the next attempt starts with
\* sessions.retrieve while `attempt <= maxRetries`
DelayOver ==
    /\ connectPc = "delay"
    /\ connectAttempt' = connectAttempt + 1
    /\ IF connectAttempt + 1 <= connectMaxRetries
       THEN /\ connectPc' = "retrieve"
            /\ retrieveCalls' = retrieveCalls + 1
       ELSE /\ connectPc' = "loopEnded"
            /\ UNCHANGED retrieveCalls
    /\ UNCHANGED cdpCalls
    /\ ConnectCallGoesOn

ConnectNext ==
    \/ RetrieveThrows
    \/ RetrieveWithoutUrl
    \/ RetrieveWithUrl
    \/ CdpConnected
    \/ CdpThrows
    \/ DelayOver

ConnectSpec == ConnectInit /\ [][ConnectNext]_vars

----------------------------------------------------------------------------
(* utils/cleanup.js: executeAction and testWebsite                         *)
(*                                                                         *)
(* A log entry is modelled by its action.action and its result.success.    *)
(* The awaits of one iteration that come before analyzeAndAct              *)
(* (waitForTimeout, title, screenshot) are one step, since nothing is      *)
(* written between them.                                                   *)

\* `const maxActions = 15`
maxActions == 15

\* Number of actions of one call whose result has success false.
MaxFailures == 2

\* the actions analyzeAndAct returns: one the driver can execute, one that
\* executeAction does not know, and `complete`
Decisions == {"click", "hover", "complete"}

DriverActions == {"click", "type", "scroll", "navigate", "wait"}

\* executeAction: the result's success.  A missing target and an error of
\* the driver are thrown inside the try block, whose catch block returns
\* success false; an unknown action gets the default case.
executeAction(actionType, driverThrows) ==
    IF actionType \in DriverActions THEN [success |-> ~driverThrows]
    ELSE IF actionType = "complete" THEN [success |-> TRUE]
    ELSE [success |-> FALSE]

LimitMessage == "Reached maximum actions limit"

AgentInit ==
    /\ LogIdle
    /\ ServerInit
    /\ ClientIdle
    /\ RecordingIdle
    /\ BuilderIdle
    /\ ShutdownIdle
    /\ ConnectIdle
    /\ actionCount = 0
    /\ actionLog = <<>>
    /\ loopPc = "goto"
    /\ decision = "none"
    /\ asked = 0
    /\ events = {"Navigating"}

AgentCallGoesOn ==
    UNCHANGED <<serverVars, clientVars, recordingVars, builderVars,
                shutdownVars, connectVars, logVars>>

\* the catch block of testWebsite: the error is reported, an entry with
\* action `error` is pushed and the log is returned
TestingFailed ==
    /\ events' = events \cup {"Testing failed"}
    /\ actionLog' = Append(actionLog, [action |-> "error",
                                       success |-> FALSE])
    /\ loopPc' = "returned"
    /\ UNCHANGED <<actionCount, decision, asked>>
    /\ AgentCallGoesOn

\* after the loop: `if (actionCount >= maxActions) progressCallback(...)`,
\* the messages given before `return actionLog`
AfterLoop(count) ==
    IF count >= maxActions THEN {LimitMessage} ELSE {}

\* `while (actionCount < maxActions) { actionCount++; await ...`: the next
\* iteration starts, or the loop is over and the log is returned
WhileLoop ==
    IF actionCount < maxActions
    THEN /\ actionCount' = actionCount + 1
         /\ loopPc' = "context"
         /\ UNCHANGED events
    ELSE /\ loopPc' = "returned"
         /\ events' = events \cup AfterLoop(actionCount)
         /\ UNCHANGED actionCount

\* setViewportSize and goto returned
GotoOk ==
    /\ loopPc = "goto"
    /\ WhileLoop
    /\ UNCHANGED <<actionLog, decision, asked>>
    /\ AgentCallGoesOn

GotoFail ==
    /\ loopPc = "goto"
    /\ TestingFailed

\* waitForTimeout, title and screenshot returned: analyzeAndAct is called
ContextOk ==
    /\ loopPc = "context"
    /\ loopPc' = "analyze"
    /\ asked' = asked + 1
    /\ UNCHANGED <<actionCount, actionLog, decision, events>>
    /\ AgentCallGoesOn

ContextFail ==
    /\ loopPc = "context"
    /\ TestingFailed

\* BreakOnComplete, had the loop not looked at the action
BreakNever(action) == FALSE

\* `if (action.action === 'complete') { ...; break; }`
BreakOnComplete(action) == action = "complete"

\* analyzeAndAct returned `action`: on `complete` the entry is pushed and
\* the loop is left; otherwise executeAction is called
Decide(action) ==
    /\ loopPc = "analyze"
    /\ IF BreakOnComplete(action)
       THEN /\ actionLog' = Append(actionLog, [action |-> action,
                                               success |-> TRUE])
            /\ loopPc' = "returned"
            /\ events' = events \cup {"Testing completed"}
                             \cup AfterLoop(actionCount)
            /\ UNCHANGED decision
       ELSE /\ decision' = action
            /\ loopPc' = "execute"
            /\ UNCHANGED <<actionLog, events>>
    /\ UNCHANGED <<actionCount, asked>>
    /\ AgentCallGoesOn

\* analyzeAndAct threw (`AI analysis failed: ...`)
AnalyzeThrows ==
    /\ loopPc = "analyze"
    /\ TestingFailed

Failed(log) == SelectSeq(log, LAMBDA entry : ~entry.success)

\* AfterAction, had a failed action ended the loop
AfterActionStopsOnFailure(result) ==
    IF result.success THEN "delay" ELSE "returned"

\* `if (!result.success) console.warn(...)`: the loop goes on to
\* `await page.waitForTimeout(500)` whatever the result
AfterAction(result) == "delay"

\* executeAction returned its result: the entry is pushed
Executed(driverThrows) ==
    /\ loopPc = "execute"
    /\ LET result == executeAction(decision, driverThrows)
       IN /\ result.success \/ Len(Failed(actionLog)) < MaxFailures
          /\ actionLog' = Append(actionLog, [action |-> decision,
                                             success |-> result.success])
          /\ loopPc' = AfterAction(result)
    /\ decision' = "none"
    /\ UNCHANGED <<actionCount, asked, events>>
    /\ AgentCallGoesOn

\* the delay between two actions is over
DelayOk ==
    /\ loopPc = "delay"
    /\ WhileLoop
    /\ UNCHANGED <<actionLog, decision, asked>>
    /\ AgentCallGoesOn

DelayFail ==
    /\ loopPc = "delay"
    /\ TestingFailed

AgentNext ==
    \/ GotoOk
    \/ GotoFail
    \/ ContextOk
    \/ ContextFail
    \/ \E action \in Decisions : Decide(action)
    \/ AnalyzeThrows
    \/ \E driverThrows \in BOOLEAN : Executed(driverThrows)
    \/ DelayOk
    \/ DelayFail

AgentSpec == AgentInit /\ [][AgentNext]_vars

----------------------------------------------------------------------------
(* database/db.js: saveActionLog and getActionLogs, for the rows of one    *)
(* run                                                                     *)
(*                                                                         *)
(* A timestamp is the value of `new Date().toISOString()`, which has the   *)
(* resolution of a millisecond: an entry produced in the millisecond of    *)
(* the entry before it carries the same timestamp (in testWebsite the      *)
(* entry of the catch block can follow an entry at once).                  *)

\* Number of entries a job produces.
MaxEntries == 4

\* Number of milliseconds over which the entries are produced.
MaxTimestamp == 3

Timestamps == 1..MaxTimestamp

\* the timestamp of the entry produced last (the clock does not go back)
LastTimestamp == IF produced = <<>> THEN 1 ELSE produced[Len(produced)]

\* INSERT INTO action_logs (...) VALUES (...): id is AUTOINCREMENT
saveActionLog(rows, timestamp) ==
    Append(rows, [id |-> Len(rows) + 1, timestamp |-> timestamp])

\* the orders in which the ids of the rows can be listed
Orders(rows) ==
    {order \in [1..Len(rows) -> 1..Len(rows)] :
        \A i, j \in 1..Len(rows) : i # j => order[i] # order[j]}

\* SELECT * FROM action_logs WHERE test_id = ? ORDER BY timestamp ASC: the
\* rows in an order of ascending timestamp; SQL leaves the order of rows
\* with equal timestamps open
getActionLogs(rows) ==
    {order \in Orders(rows) :
        \A i, j \in 1..Len(rows) :
            i < j => rows[order[i]].timestamp <= rows[order[j]].timestamp}

LogInit ==
    /\ ServerInit
    /\ ClientIdle
    /\ RecordingIdle
    /\ BuilderIdle
    /\ ShutdownIdle
    /\ ConnectIdle
    /\ AgentIdle
    /\ produced = <<>>
    /\ logRows = <<>>
    /\ readBack = <<>>

LogCallGoesOn ==
    UNCHANGED <<serverVars, clientVars, recordingVars, builderVars,
                shutdownVars, connectVars, agentVars>>

\* the job produces an entry (`actionLogs.push({timestamp: new Date()...`)
\* and saves it at once
ProduceAndSave(timestamp) ==
    /\ Len(produced) < MaxEntries
    /\ timestamp >= LastTimestamp
    /\ produced' = Append(produced, timestamp)
    /\ logRows' = saveActionLog(logRows, timestamp)
    /\ UNCHANGED readBack
    /\ LogCallGoesOn

\* getTestActionLogs(testId) returns what getActionLogs gives
GetTestActionLogs ==
    /\ logRows # <<>>
    /\ readBack' \in getActionLogs(logRows)
    /\ UNCHANGED <<produced, logRows>>
    /\ LogCallGoesOn

LogNext ==
    \/ \E timestamp \in Timestamps : ProduceAndSave(timestamp)
    \/ GetTestActionLogs

LogSpec == LogInit /\ [][LogNext]_vars

----------------------------------------------------------------------------
(* Vocabulary of the properties                                            *)

StatusOf(t, testId) == IF testId \in DOMAIN t THEN t[testId].status ELSE "none"

RunningTests == {i \in DOMAIN tests : tests[i].status = "running"}

\* requests that were answered `queued`, in the order they were queued
\* (testIds are drawn in the order the requests arrive)
EverQueued == {i \in Ids : startPc[i] = "queued"}

JobStarted(testId) == jobPc[testId] # "none"

\* nothing is suspended: no handler, no job and no drain pass has a step left
Quiescent ==
    /\ \A i \in Ids : /\ startPc[i] \notin {"createSession", "endSession"}
                      /\ jobPc[i] \in {"none", "done"}
                      /\ stopPc[i] = "idle"
    /\ pqPc.pc = "idle"

\* The pass of processQueue never gets past its first check of the active
\* map: the steps DrainSessionCreated, DrainSessionFailed and DrainDelayDone
\* are never enabled.
PassNeverAdmits ==
    /\ pqPc.pc = "idle"
    /\ ~isProcessingQueue
    /\ \A i \in 1..Len(testQueue) : testQueue[i] \in DOMAIN activeSessions

----------------------------------------------------------------------------
\* C1: with the limit of 1, at most one run has status `running` at any
\* instant, under every interleaving of start requests.
C1_AtMostOneRunning == Cardinality(RunningTests) <= SessionLimit

\* C2: every run that was put in `queued` is started once the active run is
\* over, and the pending list becomes empty.  Stated on the states where
\* nothing is left to run: there no run is still queued.
C2_QueueDrained ==
    (Quiescent /\ RunningTests = {}) =>
        /\ Len(testQueue) = 0
        /\ \A i \in DOMAIN tests : tests[i].status # "queued"

\* C3: the persisted status of a run only moves along
\* pending -> [queued ->] running -> completed | failed | stopped, and a
\* terminal status never changes.  (A row is inserted as `pending` and set
\* to `queued` or `running` in the same segment.)
LegalStatusStep ==
    {<<"none", "queued">>, <<"none", "running">>, <<"queued", "running">>,
     <<"running", "completed">>, <<"running", "failed">>,
     <<"running", "stopped">>}

C3_StatusPath ==
    [][\A i \in Ids :
          \/ StatusOf(tests', i) = StatusOf(tests, i)
          \/ <<StatusOf(tests, i), StatusOf(tests', i)>> \in LegalStatusStep
      ]_vars

\* C4: once a stop request on a running run has succeeded, the run's status
\* is `stopped`, it has no Report, and GET report answers 400.
C4_StoppedStaysStopped ==
    \A i \in stopSucceeded :
        /\ tests[i].status = "stopped"
        /\ reports[i] = 0
        /\ ReportEndpoint(i) = 400

\* C5: queued requests are admitted in FIFO order: of two queued requests
\* the earlier one is started, and it is started before the later one.
C5_FifoAdmission ==
    \A a, b \in EverQueued :
        a < b =>
            /\ JobStarted(b) => JobStarted(a)
            /\ (Quiescent /\ RunningTests = {}) => JobStarted(a)

\* C6: a valid start request that arrives while the active map is not empty
\* creates a row with status `queued` and no session, is appended at the
\* tail of the pending list, creates no remote session, and is answered
\* with its 1-based index in the pending list.
C6_QueuedStart ==
    [][(nextId' = nextId + 1 /\ DOMAIN activeSessions # {}) =>
          /\ StatusOf(tests, nextId) = "none"
          /\ StatusOf(tests', nextId) = "queued"
          /\ tests'[nextId].sessionId = 0
          /\ testQueue' = Append(testQueue, nextId)
          /\ sessions' = sessions
          /\ endRequests' = endRequests
          /\ nextId \in DOMAIN startReply'
          /\ startReply'[nextId].code = 200
          /\ startReply'[nextId].status = "queued"
          /\ startReply'[nextId].queuePosition = Len(testQueue) + 1
          /\ testQueue'[startReply'[nextId].queuePosition] = nextId
      ]_vars

\* three requests were queued in a row and answered with positions 1, 2, 3
C6_Witness ==
    /\ Len(testQueue) = 3
    /\ \A k \in 1..3 :
          /\ startReply[testQueue[k]].queuePosition = k
          /\ tests[testQueue[k]].status = "queued"

\* C7: stopping the running run drains the queue: the head pending request
\* is started with no other run finishing and no new request arriving.
\* Stated on the states where the stop has been answered and nothing is left
\* to run: there the pending list is empty.
C7_StopDrains ==
    \A i \in stopSucceeded :
        (Quiescent /\ RunningTests = {}) => Len(testQueue) = 0

\* C8: whatever step of an admitted job throws, the run's status becomes
\* `failed` with the error message, and an end request is issued for the
\* run's remote session.
JobErrors == {ConnectError, NavigateError, ProtocolError, ReportError}

C8_FailureEndsSession ==
    \A i \in Ids :
        (jobPc[i] \in {"cleanup", "done"} /\ tests[i].error \in JobErrors) =>
            /\ tests[i].status = "failed"
            /\ endRequests[i] >= 1

C10_RejectedStopChangesNothing ==
    [][\A i \in Ids :
          (StatusOf(tests, i) \notin {"none", "running"} /\ StopTest(i)) =>
              /\ StopAnswer(i) = 400
              /\ UNCHANGED <<tests, reports, actionLogs, activeSessions,
                             testQueue, isProcessingQueue, endRequests,
                             jobPc, stopPc, stopSucceeded>>
      ]_vars

\* a stop request can arrive for a completed run, for a failed run, for a
\* stopped run and for a queued run, each with an active map and a pending
\* list that are not empty
C10_Witness ==
    /\ \E i \in DOMAIN tests : tests[i].status = "stopped" /\ ENABLED StopTest(i)
    /\ \E i \in DOMAIN tests : tests[i].status = "queued" /\ ENABLED StopTest(i)
    /\ \E i \in DOMAIN tests :
          tests[i].status \in {"completed", "failed"} /\ ENABLED StopTest(i)
    /\ Len(testQueue) > 0

\* C11: whenever a run's persisted status is `completed`, exactly one report
\* row exists for it, so that GET report answers with the report and never
\* with 404; and no job inserts more than one report row.
C11_OneReportWhenCompleted ==
    \A i \in Ids :
        /\ reports[i] <= 1
        /\ StatusOf(tests, i) = "completed" =>
              /\ reports[i] = 1
              /\ ReportEndpoint(i) = 200

\* two runs are completed, each with its report
C11_Witness ==
    \E i, j \in DOMAIN tests :
        /\ i # j
        /\ tests[i].status = "completed" /\ reports[i] = 1
        /\ tests[j].status = "completed" /\ reports[j] = 1

\* C12: a failure of the summary generation, or of attaching the summary to
\* the report, never makes the run `failed`: the step that handles the
\* failure writes `completed` and leaves the run's report row in place.
C12_SummaryFailureCompletes ==
    [][\A i \in Ids :
          JobSummaryFail(i) =>
              /\ StatusOf(tests', i) = "completed"
              /\ tests'[i].error = NoError
              /\ reports[i] = 1
              /\ reports' = reports
              /\ jobPc'[i] = "done"
      ]_vars

\* a run is completed with a report that has no summary, next to a run
\* whose report has one
C12_Witness ==
    \E i, j \in DOMAIN tests :
        /\ tests[i].status = "completed" /\ jobPc[i] = "done"
        /\ reports[i] = 1 /\ ~reportSummary[i]
        /\ tests[j].status = "completed" /\ reportSummary[j]

TerminalStatuses == {"completed", "failed", "stopped"}

\* C13: every run whose persisted status is completed, failed or stopped
\* ends up without an entry in the active map, whichever path made it
\* terminal.  A terminal run that still has an entry is a failed run whose
\* job waits in the catch block for endSession to return, the step after
\* which deletes the entry; once nothing is suspended no terminal run has an
\* entry.
C13_TerminalLeavesActiveMap ==
    /\ \A i \in DOMAIN activeSessions :
          StatusOf(tests, i) \in TerminalStatuses =>
              /\ jobPc[i] = "cleanup"
              /\ ENABLED JobCleanupDone(i)
    /\ Quiescent =>
          \A i \in DOMAIN tests :
              tests[i].status \in TerminalStatuses =>
                  i \notin DOMAIN activeSessions

\* a run was stopped and a run failed with a browser and was cleaned up;
\* neither has an entry
C13_Witness ==
    \E i, j \in DOMAIN tests :
        /\ tests[i].status = "stopped" /\ i \in stopSucceeded
        /\ tests[j].status = "failed" /\ jobPc[j] = "done" /\ browser[j]
        /\ i \notin DOMAIN activeSessions
        /\ j \notin DOMAIN activeSessions

\* C14: a queued run whose admission fails during a drain pass is marked
\* `failed` with the error message, and the pass goes on to the next pending
\* request: a queued run does not stay behind.  Stated on the states where
\* nothing is suspended and no run is running: there every run that was
\* queued has been started or is `failed` with the message of the failed
\* admission.
AdmissionErrors == {SessionError, InsertError}

InvalidUrls == {"missing", "malformed"}

C16_InvalidStartChangesNothing ==
    [][\A url \in InvalidUrls :
          (StartInvalid(url) \/ StartQueued(url) \/ StartImmediate(url)) =>
              /\ StartAnswer(url) = 400
              /\ UNCHANGED <<nextId, tests, sessions, endRequests,
                             activeSessions, testQueue, isProcessingQueue,
                             startPc, jobPc, startReply>>
      ]_vars

\* an invalid request arrives while a run is running and a request is
\* pending, at a point where a valid one would be queued
C16_Witness ==
    /\ RunningTests # {}
    /\ Len(testQueue) > 0
    /\ \A url \in InvalidUrls : ENABLED StartInvalid(url)
    /\ ENABLED StartQueued("valid")

\* C18: GET report answers 404 for an unknown run identifier, 400 for a
\* known run whose persisted status is not `completed`, and the stored
\* report (200) for a `completed` run and for no other.
C18_ReportAnswers ==
    \A i \in Ids :
        /\ i \notin DOMAIN tests => ReportEndpoint(i) = 404
        /\ (i \in DOMAIN tests /\ tests[i].status # "completed") =>
              ReportEndpoint(i) = 400
        /\ StatusOf(tests, i) = "completed" => ReportEndpoint(i) = 200
        /\ ReportEndpoint(i) = 200 =>
              StatusOf(tests, i) = "completed" /\ reports[i] = 1

\* the table holds a completed run, a queued run and a failed run that has
\* a report row, and one identifier is unknown
C18_Witness ==
    /\ \E i \in DOMAIN tests : tests[i].status = "completed"
    /\ \E i \in DOMAIN tests : tests[i].status = "queued"
    /\ \E i \in DOMAIN tests :
          tests[i].status \in {"failed", "stopped"} /\ reports[i] = 1
    /\ \E i \in Ids : i \notin DOMAIN tests

\* C17: GET recording for a known run answers 404 whenever the recording
\* is not yet available, that is whenever none of the retrievals of the
\* retry budget shows the session completed or ended.
SessionSeenCompleted(outcomes) ==
    \E k \in 1..maxRetries : outcomes[k] = "completed"

C17_UnavailableRecordingAnswers404 ==
    (/\ recordingReply # NoReply
     /\ recordingRequest.testId \in DOMAIN tests
     /\ tests[recordingRequest.testId].sessionId # 0
     /\ ~SessionSeenCompleted(recordingRequest.retrievals)) =>
        recordingReply.code = 404

\* C19: analyzeAndAct never throws because of the model's text: whenever
\* the text has no "{" followed by a "}", or the matched text is not JSON,
\* the call returns a decision whose action is `complete`, with a
\* diagnostic as reasoning.
HasBracePair(text) ==
    \E i, j \in 1..Len(text) : i < j /\ text[i] = "{" /\ text[j] = "}"

Diagnostics ==
    {"Could not parse action from response", "Invalid response format"}

C19_MalformedTextGivesComplete ==
    (responseText.kind = "text" /\ actionData.kind # "none") =>
        /\ actionData.kind = "returned"
        /\ (\/ ~HasBracePair(responseText.text)
            \/ ~JSONparse(Match(responseText.text).text).ok) =>
              /\ actionData.value.action = "complete"
              /\ actionData.value.reasoning \in Diagnostics

\* the call has returned for a text whose match, from the first "{" to the
\* last "}", has a member but is not JSON
C19_Witness ==
    /\ actionData.kind = "returned"
    /\ HasBracePair(responseText.text)
    /\ \E i \in 1..Len(responseText.text) : responseText.text[i] = "a"
    /\ ~JSONparse(Match(responseText.text).text).ok

\* C20: when the text holds a well-formed JSON action object between two
\* stretches of prose, analyzeAndAct returns exactly that object, whatever
\* the prose, braces in it included.
ActionObjectAt(text, i, j) ==
    /\ JSONparse(SubSeq(text, i, j)).ok
    /\ JSONparse(SubSeq(text, i, j)).value.action = "click"

C20_EmbeddedObjectReturned ==
    (responseText.kind = "text" /\ actionData.kind # "none") =>
        \A i, j \in 1..Len(responseText.text) :
            (i < j /\ ActionObjectAt(responseText.text, i, j)) =>
                actionData =
                    Returned(JSONparse(SubSeq(responseText.text, i, j)).value)

\* C21: every decision analyzeAndAct returns has an action that is one of
\* click, type, scroll, navigate, wait, complete, whatever JSON the model
\* wrote.
ActionKinds == {"click", "type", "scroll", "navigate", "wait", "complete"}

C21_ActionIsEnumerated ==
    actionData.kind = "returned" => actionData.value.action \in ActionKinds

\* C22: for every action log given to generateReport, summary.issuesFound
\* is the number of entries whose result.success is false, and the success
\* rate is 100 x successes / total, 0 for an empty log; the rate shown in
\* the summary is that rate to the nearest hundredth.
Failures(logs) == {k \in 1..Len(logs) : ~logs[k].success}

Successes(logs) == {k \in 1..Len(logs) : logs[k].success}

Abs(x) == IF x < 0 THEN -x ELSE x

C22_IssuesAndSuccessRate ==
    \A c \in 1..Len(report) :
        LET logs == reportArgs.actionLogs
            total == Len(logs)
            rate == report[c].performanceMetrics.successRate
            shown == report[c].summary.successRate.hundredths
        IN /\ report[c].summary.issuesFound = Cardinality(Failures(logs))
           /\ total = 0 => (rate.num = 0 /\ shown = 0)
           /\ total > 0 =>
                 /\ rate.num * total
                       = 100 * Cardinality(Successes(logs)) * rate.den
                 /\ 2 * Abs(shown * total
                              - 10000 * Cardinality(Successes(logs)))
                       <= total

\* a report was built for a log of three entries of which one failed
C22_Witness ==
    /\ Len(report) >= 1
    /\ Len(reportArgs.actionLogs) = 3
    /\ Cardinality(Failures(reportArgs.actionLogs)) = 1
    /\ report[1].summary.successRate.hundredths = 6667

\* C23: generateReport is deterministic in its inputs: two calls with the
\* same action log, the same session and the same answers about the
\* recording produce the same summary, navigationPath and issues, whenever
\* each call is made.
C23_SameInputsSameSections ==
    Len(report) = 2 =>
        /\ report[1].summary = report[2].summary
        /\ report[1].navigationPath = report[2].navigationPath
        /\ report[1].issues = report[2].issues
        /\ report[1].recordingUrl = report[2].recordingUrl

\* two reports were built at different times from a log with a page and a
\* failed entry
C23_Witness ==
    /\ Len(report) = 2
    /\ report[1].timestamp # report[2].timestamp
    /\ Len(report[1].navigationPath) >= 2
    /\ Len(report[1].issues) >= 1

\* C24: on graceful shutdown every run whose persisted status is `running`
\* is set to `stopped`, an end request is issued for its session when it has
\* one, and a session whose end request failed does not keep the runs after
\* it from being cleaned up.
C24_ShutdownStopsEveryRunning ==
    cleanupPc = "exited" =>
        \A id \in DOMAIN shutdownTests :
            /\ shutdownTests[id].status # "running"
            /\ (shutdownTests[id].status = "stopped"
                /\ shutdownTests[id].sessionId # 0) => id \in released

\* C25: the job honours a stop at its next step boundary: once the stop
\* request of a run has succeeded, no step of the run's job persists an
\* ActionLogEntry, goes on to build the report, or writes a status for the
\* run (the report of a generateReport call that was in flight is allowed).
C25_StopHonouredAtStepBoundary ==
    [][\A i \in stopSucceeded :
           /\ actionLogs'[i] = actionLogs[i]
           /\ tests'[i].status = tests[i].status
           /\ (jobPc[i] # "report" => jobPc'[i] # "report")]_vars

C27_SuccessPathOrder ==
    [][\A i \in Ids :
          /\ (jobPc'[i] = "release" /\ jobPc[i] # "release")
                 => /\ jobPc[i] = "closeBrowser"
                    /\ endRequests'[i] = endRequests[i] + 1
                    /\ reports[i] = 0 /\ reports'[i] = 0
          /\ (jobPc'[i] = "report" /\ jobPc[i] # "report")
                 => /\ jobPc[i] = "release"
                    /\ endRequests[i] >= 1
                    /\ reports'[i] = 0
          /\ reports'[i] # reports[i]
                 => /\ jobPc[i] = "report"
                    /\ jobPc'[i] = "summary"
                    /\ reports'[i] = 1
                    /\ StatusOf(tests', i) # "completed"
          /\ (jobPc[i] = "report" /\ jobPc'[i] = "summary")
                 => reports'[i] = 1
          /\ (jobPc[i] = "report" /\ jobPc'[i] \notin {"report", "summary"})
                 => /\ reports'[i] = 0
                    /\ StatusOf(tests', i) = "failed"
                    /\ tests'[i].error = ReportError
          /\ (StatusOf(tests, i) # "completed"
              /\ StatusOf(tests', i) = "completed")
                 => /\ jobPc[i] = "summary"
                    /\ reports[i] = 1
                    /\ endRequests[i] >= 1
      ]_vars

\* a run went through the whole success path: one end request, one report
\* row, status `completed`; another failed in generateReport
C27_Witness ==
    \E i, j \in DOMAIN tests :
        /\ tests[i].status = "completed" /\ jobPc[i] = "done"
        /\ endRequests[i] = 1 /\ reports[i] = 1
        /\ tests[j].status = "failed" /\ tests[j].error = ReportError

\* C28: every status transition records its timestamp: a run that is
\* `running` has its start timestamp, and a run whose status is completed,
\* failed or stopped has its completion timestamp and the message that was
\* passed with the status (the stop handler passes StopMessage).
C28_TransitionsAreStamped ==
    \A i \in DOMAIN tests :
        /\ tests[i].status = "running" => tests[i].startedAt
        /\ tests[i].status \in TerminalStatuses => tests[i].completedAt
        /\ tests[i].status = "failed" => tests[i].error # NoError
        /\ tests[i].status = "stopped" => tests[i].error = StopMessage

\* C29: connectPlaywright makes at most 20 attempts: no 21st retrieval is
\* ever made; it returns as soon as an attempt that got a connect URL has
\* its CDP connection, and then the job goes on; it throws only from the
\* 20th attempt, and then the run is `failed` with the connection error.
C29_ConnectWithinTwentyAttempts ==
    /\ connectAttempt <= connectMaxRetries
    /\ retrieveCalls = connectAttempt
    /\ cdpCalls <= retrieveCalls
    /\ connectPc \in {"retrieve", "connectOverCDP", "delay", "returned",
                      "thrown"}
    /\ connectPc = "delay" => connectAttempt < connectMaxRetries
    /\ connectPc \in {"retrieve", "connectOverCDP", "delay"}
          => /\ jobPc[1] = "connect"
             /\ tests[1].status = "running"
    /\ connectPc = "returned"
          => /\ cdpCalls >= 1
             /\ jobPc[1] = "navigate" /\ browser[1]
             /\ tests[1].status = "running"
    /\ connectPc = "thrown"
          => /\ connectAttempt = connectMaxRetries
             /\ retrieveCalls = connectMaxRetries
             /\ tests[1].status = "failed"
             /\ tests[1].error = ConnectError
    /\ (connectPc = "connectOverCDP" => ENABLED CdpConnected)

\* the call threw from its 20th attempt, after attempts that failed in the
\* CDP connection and attempts that found no connect URL
C29_Witness ==
    /\ connectPc = "thrown"
    /\ retrieveCalls = connectMaxRetries
    /\ cdpCalls >= 1 /\ cdpCalls < connectMaxRetries
    /\ tests[1].status = "failed"

\* C30: getRecordingUrl always ends with a URL: it makes at least one and
\* at most maxRetries retrievals, it stops at the first retrieval that shows
\* the session completed, and it returns the session's URL (never null, never
\* an error) both then and when every retrieval was used up, whether the
\* retrievals failed or showed a session still running.
C30_RecordingUrlAlwaysReturned ==
    LET outcomes == recordingRequest.retrievals
        calls == RetrieveCalls(outcomes, 1)
    IN recordingRequest.testId # 0 =>
          /\ calls \in 1..maxRetries
          /\ \A k \in 1..(calls - 1) : outcomes[k] # "completed"
          /\ IF SessionSeenCompleted(outcomes)
             THEN outcomes[calls] = "completed"
             ELSE calls = maxRetries
          /\ \A sessionId \in Ids :
                /\ getRecordingUrl(sessionId, outcomes)
                       = RecordingUrlOf(sessionId)
                /\ getRecordingUrl(sessionId, outcomes) # <<>>
          /\ (/\ recordingReply # NoReply
              /\ recordingRequest.testId \in DOMAIN tests
              /\ tests[recordingRequest.testId].sessionId # 0)
                 => /\ recordingReply.code = 200
                    /\ recordingReply.recordingUrl =
                          RecordingUrlOf(tests[recordingRequest.testId].sessionId)

\* the handler answered with the URL after five retrievals of which the
\* first threw and none showed the session completed
C30_Witness ==
    /\ recordingReply # NoReply
    /\ recordingReply.recordingUrl = RecordingUrlOf(1)
    /\ recordingRequest.retrievals[1] = "error"
    /\ recordingRequest.retrievals[2] = "running"
    /\ RetrieveCalls(recordingRequest.retrievals, 1) = maxRetries
    /\ ~SessionSeenCompleted(recordingRequest.retrievals)

\* C31: the loop of testWebsite is bounded and stops on `complete`:
\* analyzeAndAct is called at most 15 times, once per iteration; a
\* `complete` decision is logged as the last entry of the log, which is
\* returned at once, with no action executed and no decision asked after it.
C31_LoopBoundedStopsOnComplete ==
    /\ asked <= maxActions
    /\ actionCount <= maxActions
    /\ loopPc \in {"analyze", "execute", "delay"} => asked = actionCount
    /\ \A k \in 1..Len(actionLog) :
          actionLog[k].action = "complete"
              => /\ k = Len(actionLog)
                 /\ loopPc = "returned"
                 /\ asked = k
                 /\ ~ENABLED AgentNext

\* `complete` was the fourth decision, after two failed actions
C31_Witness ==
    /\ loopPc = "returned"
    /\ Len(actionLog) = 4
    /\ actionLog[4].action = "complete"
    /\ Len(Failed(actionLog)) = 2
    /\ asked = 4

\* C32: a failing action never ends the loop: executeAction returns a
\* result (success false for an unknown action and for an action on which
\* the driver throws), the result is pushed as the entry of the action, and
\* the loop goes on with its delay and, below the cap, with the next
\* iteration, which asks for the next decision.
C32_FailedActionGoesOn ==
    [][/\ loopPc = "execute"
          => /\ actionLog' = Append(actionLog,
                    [action |-> decision,
                     success |-> actionLog'[Len(actionLog')].success])
             /\ (decision \notin DriverActions
                    => ~actionLog'[Len(actionLog')].success)
             /\ loopPc' = "delay"
       /\ (loopPc = "delay" /\ actionLog' = actionLog)
          => IF actionCount < maxActions
             THEN loopPc' = "context" /\ actionCount' = actionCount + 1
             ELSE loopPc' = "returned"
       /\ (loopPc = "context" /\ actionLog' = actionLog)
          => loopPc' = "analyze" /\ asked' = asked + 1
      ]_vars

\* an unknown action and an action on which the driver threw were logged as
\* unsuccessful, and the loop went on to a third decision, now executed
C32_Witness ==
    /\ Len(actionLog) = 3
    /\ actionLog[1] = [action |-> "hover", success |-> FALSE]
    /\ actionLog[2] = [action |-> "click", success |-> FALSE]
    /\ actionLog[3].success
    /\ loopPc = "delay"

\* C39: 'Reached maximum actions limit' is given to the progress callback
\* only when the loop ended at the cap without a `complete` decision: never
\* in a call whose log has a `complete` entry.
C39_LimitMessageOnlyWithoutComplete ==
    LimitMessage \in events =>
        \A k \in 1..Len(actionLog) : actionLog[k].action # "complete"

\* the position at which a page URL is first seen in a log
FirstSeen(logs, url) ==
    CHOOSE k \in 1..Len(logs) :
        logs[k].url = url /\ \A j \in 1..(k - 1) : logs[j].url # url

WithUrl(logs) == {k \in 1..Len(logs) : logs[k].url # ""}

\* C33: for every action log, pagesVisited of the report is the list of the
\* distinct page URLs of the log in the order in which they are first seen;
\* navigationPath has one entry per log entry that carries a page URL, in
\* log order, with steps 1..k; and actionsTimeline has one entry per log
\* entry, with steps 1..n.
C33_ReportLists ==
    \A n \in 1..Len(report) :
        LET logs == reportArgs.actionLogs
            pages == report[n].pagesVisited
            path == report[n].navigationPath
            timeline == report[n].actionsTimeline
        IN /\ {pages[i] : i \in 1..Len(pages)}
                  = {logs[k].url : k \in WithUrl(logs)}
           /\ \A i, j \in 1..Len(pages) :
                  i < j => FirstSeen(logs, pages[i]) < FirstSeen(logs, pages[j])
           /\ report[n].summary.pagesVisited = Len(pages)
           /\ Len(path) = Cardinality(WithUrl(logs))
           /\ {path[i].timestamp : i \in 1..Len(path)} = WithUrl(logs)
           /\ \A i \in 1..Len(path) :
                  /\ path[i].step = i
                  /\ path[i].url = logs[path[i].timestamp].url
                  /\ i > 1 => path[i - 1].timestamp < path[i].timestamp
           /\ Len(timeline) = Len(logs)
           /\ \A k \in 1..Len(timeline) :
                  /\ timeline[k].step = k
                  /\ timeline[k].timestamp = k
                  /\ timeline[k].success = logs[k].success
                  /\ timeline[k].page = logs[k].url

\* a report was built from a log whose first entry has no page URL and
\* whose other entries visit two pages, the later page first in no order
\* but that of the log
C33_Witness ==
    /\ Len(report) >= 1
    /\ Len(reportArgs.actionLogs) = 3
    /\ reportArgs.actionLogs[1].url = ""
    /\ report[1].pagesVisited = <<"/about", "/">>
    /\ Len(report[1].navigationPath) = 2
    /\ Len(report[1].actionsTimeline) = 3

JobsInProgress == {i \in Ids : jobPc[i] \notin {"none", "done"}}

\* C35: when the start requests are handled one at a time, at most one job
\* is in progress at any instant, also when runs are stopped: no run is
\* given the slot while the job of an earlier run is still executing.
C35_OneJobInProgress == Cardinality(JobsInProgress) <= SessionLimit

\* C36: every request of the pending list has an entry of the active map
\* with status `queued` and a row with status `queued`; hence the active map
\* is not empty whenever the pending list is not empty.
C36_PendingAreQueued ==
    /\ \A k \in 1..Len(testQueue) :
          /\ testQueue[k] \in DOMAIN activeSessions
          /\ activeSessions[testQueue[k]].status = "queued"
          /\ StatusOf(tests, testQueue[k]) = "queued"
    /\ Len(testQueue) > 0 => DOMAIN activeSessions # {}

\* two requests are pending after the job of the run they waited for has
\* returned and a stop request was served
C36_Witness ==
    /\ Len(testQueue) >= 2
    /\ \E i \in Ids : jobPc[i] = "done"
    /\ stopSucceeded # {}

\* the job of run testId returns in this step
JobReturns(testId) == jobPc[testId] # "done" /\ jobPc'[testId] = "done"

\* C37: every job that was started returns, when the calls it awaits are
\* settled.  When it returns, on the success path and on every failure path,
\* it has written one of `completed` and `failed` for its run and never
\* writes the other afterwards, its entry of the active map is deleted, and
\* it has called processQueue once: each return is one call of processQueue
\* and processQueue is called by no other step.
C37_JobTerminatesOnce ==
    /\ \A i \in Ids : (jobPc[i] \notin {"none", "done"}) ~> (jobPc[i] = "done")
    /\ [][/\ \A i \in Ids :
                /\ JobReturns(i) =>
                      /\ StatusOf(tests', i) \in {"completed", "failed"}
                      /\ i \notin DOMAIN activeSessions'
                      /\ processQueueCalls' = processQueueCalls + 1
                /\ StatusOf(tests, i) \in {"completed", "failed"} =>
                      StatusOf(tests', i) = StatusOf(tests, i)
          /\ processQueueCalls' # processQueueCalls =>
                \E i \in Ids : JobReturns(i)
         ]_vars

\* one job has returned on the success path and another on a failure path
\* that ended a session, each with its call of processQueue
C37_Witness ==
    /\ \E i, j \in Ids :
          /\ jobPc[i] = "done" /\ StatusOf(tests, i) = "completed"
          /\ jobPc[j] = "done" /\ StatusOf(tests, j) = "failed"
          /\ browser[j]
    /\ processQueueCalls = 2

AfterInsertFailure(testId) ==
    startPc[testId] \in {"endSession", "insertFailed", "cleanupFailed"}

\* C40: when the handler of an immediate start fails after the session was
\* created, it requests the end of that session, then answers 500, whether
\* the cleanup succeeded or failed; no job is started for the request, and
\* the handler changes neither the active map nor the pending list.
C40_FailureAfterSessionCreated ==
    /\ [](\A i \in Ids :
             AfterInsertFailure(i) =>
                 /\ jobPc[i] = "none"
                 /\ i \notin DOMAIN activeSessions
                 /\ \A k \in 1..Len(testQueue) : testQueue[k] # i
                 /\ endRequests[i] = 1
                 /\ startPc[i] # "endSession" =>
                       /\ i \in DOMAIN startReply
                       /\ startReply[i] = FailureReply(InsertError)
                       /\ startReply[i].code = 500)
    /\ [][\A i \in Ids :
             (AfterInsertFailure(i)' /\ startPc'[i] # startPc[i]) =>
                 UNCHANGED <<activeSessions, testQueue, jobPc, tests>>
         ]_vars

\* the handler has answered after a cleanup that failed, and the handler of
\* another request after one that succeeded
C40_Witness ==
    \E i, j \in Ids :
        /\ startPc[i] = "cleanupFailed" /\ startReply[i].code = 500
        /\ startPc[j] = "insertFailed" /\ startReply[j].code = 500

====
